---------------------------- MODULE Spec2Model ----------------------------
(***************************************************************************)
(* Array#pack / String#unpack / String#unpack1 of mruby-pack (pack.c).     *)
(*                                                                         *)
(* Bytes are integers 0..255, byte strings are sequences of bytes.  A      *)
(* template is a sequence of one-character strings; the NUL character is   *)
(* written "NUL".  A Ruby value is a record [k, b]:                        *)
(*   k = "int": b is the integer, 9 bytes, little-endian two's complement  *)
(*              (72 bits hold every int64 and every uint64 value);         *)
(*   k = "str": b is the string's bytes;                                   *)
(*   k = "flo": b is the IEEE-754 bit pattern, most significant byte first *)
(*              (8 bytes: a double; 4 bytes: the double a single widens to);*)
(*   k = "nil": b is empty.                                                *)
(* C integers wider than 31 bits (uint32_t, uint64_t) are little-endian    *)
(* byte tuples of their width.                                             *)
(***************************************************************************)
EXTENDS Integers, Sequences, FiniteSets, TLC

VARIABLES
  littleendian,  \* static int littleendian: the host's byte order
  int64,         \* build option MRB_INT64: _int is 64 bits wide (else 32)
  op,            \* the method called: "pack", "unpack", "unpack1", "roundtrip"
  pc,            \* position of the running call
  tmpl,          \* struct tmpl .str
  tidx,          \* struct tmpl .idx
  dir,           \* read_tmpl's outputs: the current directive
  type,
  size,
  count,
  flags,
  ary,           \* pack: the receiver array
  aidx,          \* pack: index of the next input value
  result,        \* pack: the bytes written so far (buffer[0 .. ridx-1])
  ridx,          \* pack: write cursor
  cap,           \* pack: RSTRING_LEN of the buffer (its capacity)
  src,           \* unpack: the receiver string
  srcidx,        \* unpack: read cursor
  out,           \* unpack: the result array
  ret,           \* the call's return value (a sequence; unpack1: of one value)
  err,           \* the exception the call raised, "" when none
  dec_tab,       \* static unsigned char base64_dec_tab[128]
  inits,         \* the number of interpreter states that have entered the gem's init
  gem_pc,        \* position of the gem init in progress, "ready" when none is
  gem_i,         \* make_base64_dec_tab's loop variable i
  mrb,           \* mrb_state: .jmp (the jump target) and .exc (the pending exception)
  frame,         \* the running call of _protect, _ensure or _rescue_exceptions
  calls          \* the calls of the ensure and rescue callbacks made so far

vars == <<littleendian, int64, op, pc, tmpl, tidx, dir, type, size, count, flags,
          ary, aidx, result, ridx, cap, src, srcidx, out, ret, err,
          dec_tab, inits, gem_pc, gem_i, mrb, frame, calls>>

\* the variables of the exception helpers
ExcVars == <<mrb, frame, calls>>

---------------------------------------------------------------------------
(* Sequences and bytes *)

Reverse(s) == [i \in 1..Len(s) |-> s[Len(s) + 1 - i]]

Rep(n, x) == [i \in 1..n |-> x]

Min(a, b) == IF a < b THEN a ELSE b

\* s[from .. from+n-1], 0-based as in C (ptr + from, n bytes)
Slice(s, from, n) == SubSeq(s, from + 1, from + n)

SignByte(x) == IF x >= 128 THEN 255 ELSE 0

\* _fixnum_value(n) of an unsigned C value given by its bytes
ZeroExt(bs) == bs \o Rep(9 - Len(bs), 0)

\* _fixnum_value(n) of a signed C value given by its bytes
SignExt(bs) == bs \o Rep(9 - Len(bs), SignByte(bs[Len(bs)]))

\* the 9-byte form of a small integer, -2^31 < n < 2^31
IntBytes(n) ==
  LET m == IF n >= 0 THEN n ELSE -n - 1
      lo == <<m % 256, (m \div 256) % 256, (m \div 65536) % 256, m \div 16777216>>
  IN IF n >= 0 THEN ZeroExt(lo)
     ELSE [i \in 1..9 |-> IF i <= 4 THEN 255 - lo[i] ELSE 255]

Val(k, b) == [k |-> k, b |-> b]
NilValue == Val("nil", <<>>)
StrValue(s) == Val("str", s)
FixnumValue(bs) == Val("int", bs)
FloatValue(bits) == Val("flo", bits)

\* whether a 9-byte integer is a Fixnum: MRB_INT_MIN <= n <= MRB_INT_MAX
Fixable(bs, i64) ==
  LET w == IF i64 THEN 8 ELSE 4
  IN \A i \in (w + 1)..9 : bs[i] = SignByte(bs[w])

\* FIXABLE(sl) / POSFIXABLE(ul) of a C value given by its bytes
FIXABLE(bs, i64) == Fixable(SignExt(bs), i64)
POSFIXABLE(bs, i64) == Fixable(ZeroExt(bs), i64)

\* (char)(n >> k) of an unsigned value given by its bytes, k a multiple of 8
ShrByte(n, k) == n[k \div 8 + 1]

\* what a codec of pack returns: the bytes it wrote at the cursor, the length
\* it asked str_len_ensure for, and the exception it raised
Wrote(bytes, need) == [bytes |-> bytes, need |-> need, err |-> ""]
PackRaise(e) == [bytes |-> <<>>, need |-> 0, err |-> e]

\* what a codec of unpack returns: the number of bytes consumed, the values
\* pushed to the result array, and the exception it raised
Took(n, vals) == [n |-> n, vals |-> vals, err |-> ""]
UnpackRaise(e) == [n |-> 0, vals |-> <<>>, err |-> e]

---------------------------------------------------------------------------
(* Static tables *)

base64chars ==
  <<65, 66, 67, 68, 69, 70, 71, 72, 73, 74, 75, 76, 77, 78, 79, 80, 81, 82, 83,
    84, 85, 86, 87, 88, 89, 90,
    97, 98, 99, 100, 101, 102, 103, 104, 105, 106, 107, 108, 109, 110, 111, 112,
    113, 114, 115, 116, 117, 118, 119, 120, 121, 122,
    48, 49, 50, 51, 52, 53, 54, 55, 56, 57, 43, 47>>

PACK_BASE64_IGNORE == 255
PACK_BASE64_PADDING == 254

\* base64_dec_tab after make_base64_dec_tab()
base64_dec_tab ==
  [c \in 0..127 |->
     IF c >= 65 /\ c < 65 + 26 THEN c - 65
     ELSE IF c >= 97 /\ c < 97 + 26 THEN c - 97 + 26
     ELSE IF c >= 48 /\ c < 48 + 10 THEN c - 48 + 52
     ELSE IF c = 43 THEN 62
     ELSE IF c = 47 THEN 63
     ELSE IF c = 61 THEN PACK_BASE64_PADDING
     ELSE PACK_BASE64_IGNORE]

\* hex2int without the capital letters
hex2int_lower_only(ch) ==
  IF ch >= 48 /\ ch <= 57 THEN ch - 48
  ELSE IF ch >= 97 /\ ch <= 102 THEN 10 + (ch - 97)
  ELSE 0

hex2int(ch) ==
  IF ch >= 48 /\ ch <= 57 THEN ch - 48
  ELSE IF ch >= 65 /\ ch <= 70 THEN 10 + (ch - 65)
  ELSE IF ch >= 97 /\ ch <= 102 THEN 10 + (ch - 97)
  ELSE 0

hexadecimal == <<48, 49, 50, 51, 52, 53, 54, 55, 56, 57, 97, 98, 99, 100, 101, 102>>

\* isspace() in the C locale.  Its argument is a char: a byte of 0x80 or more
\* is negative where char is signed, and the tables of the C libraries give
\* 0 for it.
isspace(c) == c \in {9, 10, 11, 12, 13, 32}

\* utf8_limits with the three-byte limit at 0x1000
utf8_limits_high == <<0, 128, 4096, 65536, 2097152, 67108864>>

utf8_limits == <<0, 128, 2048, 65536, 2097152, 67108864>>

\* the new RSTRING_LEN of the buffer, or -1 when str_len_ensure raises
str_len_ensure(n, len) ==
  LET RECURSIVE Grow(_)
      Grow(m) == IF len > m THEN Grow(m * 2) ELSE m
  IN IF len < 0 THEN -1
     ELSE IF len > n THEN Grow(n * 2)
     ELSE n

---------------------------------------------------------------------------
(* Integer codecs *)

pack_c(o, fl) == Wrote(<<o.b[1]>>, 1)

unpack_c(s, fl) ==
  IF "SIGNED" \in fl
  THEN Took(1, <<FixnumValue(SignExt(<<s[1]>>))>>)
  ELSE Took(1, <<FixnumValue(ZeroExt(<<s[1]>>))>>)

pack_s(o, fl) ==
  LET n == o.b[1] + 256 * o.b[2]     \* (uint16_t)_fixnum(o)
  IN IF "LITTLEENDIAN" \in fl
     THEN Wrote(<<n % 256, n \div 256>>, 2)
     ELSE Wrote(<<n \div 256, n % 256>>, 2)

\* unpack_s that takes every value as unsigned
unpack_s_unsigned(s, fl) ==
  LET n0 == IF "LITTLEENDIAN" \in fl THEN s[2] * 256 + s[1] ELSE s[1] * 256 + s[2]
  IN Took(2, <<FixnumValue(IntBytes(n0))>>)

unpack_s(s, fl) ==
  LET n0 == IF "LITTLEENDIAN" \in fl THEN s[2] * 256 + s[1] ELSE s[1] * 256 + s[2]
      n == IF "SIGNED" \in fl /\ n0 >= 32768 THEN n0 - 65536 ELSE n0
  IN Took(2, <<FixnumValue(IntBytes(n))>>)

\* pack_l that writes the most significant byte first whatever the flags
pack_l_big(o, fl) ==
  LET n == SubSeq(o.b, 1, 4)
  IN Wrote(<<ShrByte(n, 24), ShrByte(n, 16), ShrByte(n, 8), ShrByte(n, 0)>>, 4)

pack_l(o, fl) ==
  LET n == SubSeq(o.b, 1, 4)         \* (uint32_t)_fixnum(o)
  IN IF "LITTLEENDIAN" \in fl
     THEN Wrote(<<ShrByte(n, 0), ShrByte(n, 8), ShrByte(n, 16), ShrByte(n, 24)>>, 4)
     ELSE Wrote(<<ShrByte(n, 24), ShrByte(n, 16), ShrByte(n, 8), ShrByte(n, 0)>>, 4)

unpack_l(s, fl, i64) ==
  LET ul == IF "LITTLEENDIAN" \in fl
            THEN <<s[1], s[2], s[3], s[4]>>
            ELSE <<s[4], s[3], s[2], s[1]>>
  IN IF "SIGNED" \in fl
     THEN IF ~i64 /\ ~FIXABLE(ul, i64) THEN UnpackRaise("RangeError")
          ELSE Took(4, <<FixnumValue(SignExt(ul))>>)
     ELSE IF ~i64 /\ ~POSFIXABLE(ul, i64) THEN UnpackRaise("RangeError")
          ELSE Took(4, <<FixnumValue(ZeroExt(ul))>>)

pack_q(o, fl) ==
  LET n == SubSeq(o.b, 1, 8)         \* (uint64_t)_fixnum(o)
  IN IF "LITTLEENDIAN" \in fl
     THEN Wrote(<<ShrByte(n, 0), ShrByte(n, 8), ShrByte(n, 16), ShrByte(n, 24),
                  ShrByte(n, 32), ShrByte(n, 40), ShrByte(n, 48), ShrByte(n, 56)>>, 8)
     ELSE Wrote(<<ShrByte(n, 56), ShrByte(n, 48), ShrByte(n, 40), ShrByte(n, 32),
                  ShrByte(n, 24), ShrByte(n, 16), ShrByte(n, 8), ShrByte(n, 0)>>, 8)

\* unpack_q that stores an unsigned value it cannot hold as the signed value
\* of the same bits
unpack_q_wrapping(s, fl, i64) ==
  LET pos0 == IF "LITTLEENDIAN" \in fl THEN 7 ELSE 0
      step == IF "LITTLEENDIAN" \in fl THEN -1 ELSE 1
      ull == [j \in 1..8 |-> s[pos0 + step * (8 - j) + 1]]
  IN IF "SIGNED" \in fl
     THEN IF ~FIXABLE(ull, i64) THEN UnpackRaise("RangeError")
          ELSE Took(8, <<FixnumValue(SignExt(ull))>>)
     ELSE Took(8, <<FixnumValue(SignExt(ull))>>)

unpack_q(s, fl, i64) ==
  LET pos0 == IF "LITTLEENDIAN" \in fl THEN 7 ELSE 0
      step == IF "LITTLEENDIAN" \in fl THEN -1 ELSE 1
      \* ull = ull * 256 + src[pos], eight times: the byte read at round i is
      \* the (8 - i)-th least significant
      ull == [j \in 1..8 |-> s[pos0 + step * (8 - j) + 1]]
  IN IF "SIGNED" \in fl
     THEN IF ~FIXABLE(ull, i64) THEN UnpackRaise("RangeError")
          ELSE Took(8, <<FixnumValue(SignExt(ull))>>)
     ELSE IF ~POSFIXABLE(ull, i64) THEN UnpackRaise("RangeError")
          ELSE Took(8, <<FixnumValue(ZeroExt(ull))>>)

---------------------------------------------------------------------------
(* Bit operations on small naturals *)

RECURSIVE BitAnd(_, _)
BitAnd(a, b) ==
  IF a = 0 \/ b = 0 THEN 0
  ELSE (IF a % 2 = 1 /\ b % 2 = 1 THEN 1 ELSE 0) + 2 * BitAnd(a \div 2, b \div 2)

RECURSIVE BitOr(_, _)
BitOr(a, b) ==
  IF a = 0 THEN b
  ELSE IF b = 0 THEN a
  ELSE (IF a % 2 = 1 \/ b % 2 = 1 THEN 1 ELSE 0) + 2 * BitOr(a \div 2, b \div 2)

RECURSIVE Pow2(_)
Pow2(k) == IF k = 0 THEN 1 ELSE 2 * Pow2(k - 1)

Shr(a, k) == a \div Pow2(k)

---------------------------------------------------------------------------
(* Float codecs.  A float's bits are kept most significant byte first; the  *)
(* C object "buffer" holds them in host order.  MRB_ENDIAN_BIG is defined   *)
(* exactly on big-endian hosts.                                             *)

\* (double)f of a single given by its bits (zero, normal, infinite, NaN)
Widen(f) ==
  LET sign == f[1] \div 128
      exp8 == (f[1] % 128) * 2 + f[2] \div 128
      mant == (f[2] % 128) * 65536 + f[3] * 256 + f[4]
      exp11 == IF exp8 = 0 THEN 0 ELSE IF exp8 = 255 THEN 2047 ELSE exp8 + 896
  IN <<sign * 128 + exp11 \div 16, (exp11 % 16) * 16 + mant \div 524288,
       (mant \div 2048) % 256, (mant \div 8) % 256, (mant % 8) * 32, 0, 0, 0>>

\* (float)d of a double given by its bits, for doubles a single represents
\* exactly (zero, normal, infinite)
Narrow(d) ==
  LET sign == d[1] \div 128
      exp11 == (d[1] % 128) * 16 + d[2] \div 16
      mant == (d[2] % 16) * 524288 + d[3] * 2048 + d[4] * 8 + d[5] \div 32
      exp8 == IF exp11 = 0 THEN 0 ELSE IF exp11 = 2047 THEN 255 ELSE exp11 - 896
  IN <<sign * 128 + exp8 \div 2, (exp8 % 2) * 128 + mant \div 65536,
       (mant \div 256) % 256, mant % 256>>

\* _float(o)
DoubleBits(o) == IF Len(o.b) = 8 THEN o.b ELSE Widen(o.b)
\* (float)_float(o)
SingleBits(o) == IF Len(o.b) = 4 THEN o.b ELSE Narrow(o.b)

\* the object representation of a float on the host
HostBuf(bits, le) == IF le THEN Reverse(bits) ELSE bits

pack_double(o, fl, le) ==
  LET buffer == HostBuf(DoubleBits(o), le)
      MRB_ENDIAN_BIG == ~le
  IN IF "LITTLEENDIAN" \in fl
     THEN IF MRB_ENDIAN_BIG THEN Wrote([i \in 1..8 |-> buffer[8 - (i - 1) - 1 + 1]], 8)
          ELSE Wrote(buffer, 8)
     ELSE IF MRB_ENDIAN_BIG THEN Wrote(buffer, 8)
          ELSE Wrote([i \in 1..8 |-> buffer[8 - (i - 1) - 1 + 1]], 8)

unpack_double(s, fl, le) ==
  LET MRB_ENDIAN_BIG == ~le
      rev == [i \in 1..8 |-> s[8 - (i - 1) - 1 + 1]]
      cpy == SubSeq(s, 1, 8)
      buffer == IF "LITTLEENDIAN" \in fl
                THEN (IF MRB_ENDIAN_BIG THEN rev ELSE cpy)
                ELSE (IF MRB_ENDIAN_BIG THEN cpy ELSE rev)
  IN Took(8, <<FloatValue(HostBuf(buffer, le))>>)

pack_float(o, fl, le) ==
  LET buffer == HostBuf(SingleBits(o), le)
      MRB_ENDIAN_BIG == ~le
  IN IF "LITTLEENDIAN" \in fl
     THEN IF MRB_ENDIAN_BIG THEN Wrote([i \in 1..4 |-> buffer[4 - (i - 1) - 1 + 1]], 4)
          ELSE Wrote(buffer, 4)
     ELSE IF MRB_ENDIAN_BIG THEN Wrote(buffer, 4)
          ELSE Wrote([i \in 1..4 |-> buffer[4 - (i - 1) - 1 + 1]], 4)

unpack_float(s, fl, le) ==
  LET MRB_ENDIAN_BIG == ~le
      rev == [i \in 1..4 |-> s[4 - (i - 1) - 1 + 1]]
      cpy == SubSeq(s, 1, 4)
      buffer == IF "LITTLEENDIAN" \in fl
                THEN (IF MRB_ENDIAN_BIG THEN rev ELSE cpy)
                ELSE (IF MRB_ENDIAN_BIG THEN cpy ELSE rev)
  IN Took(4, <<FloatValue(HostBuf(buffer, le))>>)

---------------------------------------------------------------------------
(* UTF-8 codec *)

\* (uint32_t)_fixnum(o) as a number; a value of 2^31 or more, which no
\* branch of pack_utf8 tells from 2^31 - 1, is given as 2^31 - 1
Uint32Of(o) ==
  IF o.b[4] < 128
  THEN o.b[1] + 256 * o.b[2] + 65536 * o.b[3] + 16777216 * o.b[4]
  ELSE 2147483647

pack_utf8(o, fl) ==
  LET c == Uint32Of(o)
  IN IF o.k = "flo" THEN PackRaise("RangeError")
     ELSE IF c < 128 THEN Wrote(<<c>>, 1)
     ELSE IF c < 2048
       THEN Wrote(<<BitOr(192, Shr(c, 6)), BitOr(128, BitAnd(c, 63))>>, 2)
     ELSE IF c < 65536
       THEN Wrote(<<BitOr(224, Shr(c, 12)), BitOr(128, BitAnd(Shr(c, 6), 63)),
                    BitOr(128, BitAnd(c, 63))>>, 3)
     ELSE IF c < 2097152
       THEN Wrote(<<BitOr(240, Shr(c, 18)), BitOr(128, BitAnd(Shr(c, 12), 63)),
                    BitOr(128, BitAnd(Shr(c, 6), 63)), BitOr(128, BitAnd(c, 63))>>, 4)
     ELSE PackRaise("RangeError")

\* utf8_to_uv that takes a sequence cut short by the end of the string as
\* the character of its leading byte
utf8_to_uv_short(p, lenp) ==
  LET c0 == p[1]
      n == IF BitAnd(c0, 32) = 0 THEN 2
           ELSE IF BitAnd(c0, 16) = 0 THEN 3
           ELSE IF BitAnd(c0, 8) = 0 THEN 4
           ELSE IF BitAnd(c0, 4) = 0 THEN 5
           ELSE IF BitAnd(c0, 2) = 0 THEN 6
           ELSE 0
      RECURSIVE Cont(_, _)
      Cont(i, uv) ==
        IF i > n THEN [uv |-> uv, ok |-> TRUE]
        ELSE IF BitAnd(p[i], 192) # 128 THEN [uv |-> uv, ok |-> FALSE]
        ELSE Cont(i + 1, uv * 64 + BitAnd(p[i], 63))
  IN IF BitAnd(c0, 128) = 0 THEN [uv |-> c0, len |-> 1, err |-> ""]
     ELSE IF BitAnd(c0, 64) = 0 THEN [uv |-> 0, len |-> 1, err |-> "ArgumentError"]
     ELSE IF n = 0 THEN [uv |-> 0, len |-> 1, err |-> "ArgumentError"]
     ELSE IF n > lenp THEN [uv |-> c0, len |-> lenp, err |-> ""]
     ELSE LET r == Cont(2, BitAnd(c0, Pow2(7 - n) - 1))
          IN IF ~r.ok THEN [uv |-> 0, len |-> n, err |-> "ArgumentError"]
             ELSE IF r.uv < utf8_limits[n]
               THEN [uv |-> r.uv, len |-> n, err |-> "ArgumentError"]
             ELSE [uv |-> r.uv, len |-> n, err |-> ""]

\* utf8_to_uv that takes a leading byte of a five or six byte sequence as
\* malformed
utf8_to_uv_max4(p, lenp) ==
  LET c0 == p[1]
      n == IF BitAnd(c0, 32) = 0 THEN 2
           ELSE IF BitAnd(c0, 16) = 0 THEN 3
           ELSE IF BitAnd(c0, 8) = 0 THEN 4
           ELSE 0
      RECURSIVE Cont(_, _)
      Cont(i, uv) ==
        IF i > n THEN [uv |-> uv, ok |-> TRUE]
        ELSE IF BitAnd(p[i], 192) # 128 THEN [uv |-> uv, ok |-> FALSE]
        ELSE Cont(i + 1, uv * 64 + BitAnd(p[i], 63))
  IN IF BitAnd(c0, 128) = 0 THEN [uv |-> c0, len |-> 1, err |-> ""]
     ELSE IF BitAnd(c0, 64) = 0 THEN [uv |-> 0, len |-> 1, err |-> "ArgumentError"]
     ELSE IF n = 0 THEN [uv |-> 0, len |-> 1, err |-> "ArgumentError"]
     ELSE IF n > lenp THEN [uv |-> 0, len |-> lenp, err |-> "ArgumentError"]
     ELSE LET r == Cont(2, BitAnd(c0, Pow2(7 - n) - 1))
          IN IF ~r.ok THEN [uv |-> 0, len |-> n, err |-> "ArgumentError"]
             ELSE IF r.uv < utf8_limits[n]
               THEN [uv |-> r.uv, len |-> n, err |-> "ArgumentError"]
             ELSE [uv |-> r.uv, len |-> n, err |-> ""]

\* p: the bytes from the cursor on; lenp: their number.  Returns the code
\* point, the sequence length left in *lenp, and the exception raised.
utf8_to_uv(p, lenp) ==
  LET c0 == p[1]
      n == IF BitAnd(c0, 32) = 0 THEN 2
           ELSE IF BitAnd(c0, 16) = 0 THEN 3
           ELSE IF BitAnd(c0, 8) = 0 THEN 4
           ELSE IF BitAnd(c0, 4) = 0 THEN 5
           ELSE IF BitAnd(c0, 2) = 0 THEN 6
           ELSE 0
      uv0 == IF n = 2 THEN BitAnd(c0, 31)
             ELSE IF n = 3 THEN BitAnd(c0, 15)
             ELSE IF n = 4 THEN BitAnd(c0, 7)
             ELSE IF n = 5 THEN BitAnd(c0, 3)
             ELSE BitAnd(c0, 1)
      \* the continuation bytes p[2..n]
      RECURSIVE Cont(_, _)
      Cont(i, uv) ==
        IF i > n THEN [uv |-> uv, ok |-> TRUE]
        ELSE IF BitAnd(p[i], 192) # 128 THEN [uv |-> uv, ok |-> FALSE]
        ELSE Cont(i + 1, uv * 64 + BitAnd(p[i], 63))
  IN IF BitAnd(c0, 128) = 0 THEN [uv |-> c0, len |-> 1, err |-> ""]
     ELSE IF BitAnd(c0, 64) = 0 THEN [uv |-> 0, len |-> 1, err |-> "ArgumentError"]
     ELSE IF n = 0 THEN [uv |-> 0, len |-> 1, err |-> "ArgumentError"]
     ELSE IF n > lenp THEN [uv |-> 0, len |-> lenp, err |-> "ArgumentError"]
     ELSE LET r == Cont(2, uv0)
          IN IF ~r.ok THEN [uv |-> 0, len |-> n, err |-> "ArgumentError"]
             ELSE IF r.uv < utf8_limits[n]
               THEN [uv |-> r.uv, len |-> n, err |-> "ArgumentError"]
             ELSE [uv |-> r.uv, len |-> n, err |-> ""]

\* s: the bytes from the cursor on (empty when srclen is 0 or less)
unpack_utf8(s, srclen, fl) ==
  IF srclen = 0 THEN Took(1, <<>>)
  ELSE LET r == utf8_to_uv(s, srclen)
       IN IF r.err # "" THEN UnpackRaise(r.err)
          ELSE Took(r.len, <<FixnumValue(IntBytes(r.uv))>>)

---------------------------------------------------------------------------
(* String codecs: A, a, Z *)

\* pack_a that pads with spaces whatever the directive
pack_a_space_pad(s, cnt, fl) ==
  LET slen == Len(s)
      copylen == IF cnt = -1 THEN slen ELSE IF cnt < slen THEN cnt ELSE slen
      padlen == IF cnt = -1 THEN (IF "Z" \in fl THEN 1 ELSE 0)
                ELSE IF cnt < slen THEN 0
                ELSE cnt - slen
  IN IF cnt = 0 THEN Wrote(<<>>, 0)
     ELSE Wrote(SubSeq(s, 1, copylen) \o Rep(padlen, 32), copylen + padlen)

\* s: the source string's bytes
pack_a(s, cnt, fl) ==
  LET slen == Len(s)
      pad == IF "a" \in fl \/ "Z" \in fl THEN 0 ELSE 32
      copylen == IF cnt = -1 THEN slen ELSE IF cnt < slen THEN cnt ELSE slen
      padlen == IF cnt = -1 THEN (IF "Z" \in fl THEN 1 ELSE 0)
                ELSE IF cnt < slen THEN 0
                ELSE cnt - slen
  IN IF cnt = 0 THEN Wrote(<<>>, 0)
     ELSE Wrote(SubSeq(s, 1, copylen) \o Rep(padlen, pad), copylen + padlen)

\* unpack_a that does not count the terminator of "Z*"
unpack_a_no_terminator(s, slen0, cnt, fl) ==
  LET slen1 == IF cnt # -1 /\ cnt < slen0 THEN cnt ELSE slen0
      nul == IF \E i \in 1..slen1 : s[i] = 0
             THEN (CHOOSE i \in 1..slen1 : s[i] = 0 /\ \A j \in 1..(i - 1) : s[j] # 0) - 1
             ELSE -1
      RECURSIVE Trim(_)
      Trim(c) == IF c > 0 /\ (s[c] = 0 \/ isspace(s[c])) THEN Trim(c - 1) ELSE c
      isZ == slen1 >= 0 /\ "Z" \in fl
      copylen0 == IF isZ THEN (IF nul # -1 THEN nul ELSE slen1)
                  ELSE IF "a" \notin fl THEN Trim(slen1)
                  ELSE slen1
      slen == IF isZ /\ nul # -1 /\ cnt = -1 THEN nul ELSE slen1
      copylen == IF copylen0 < 0 THEN 0 ELSE copylen0
  IN Took(slen, <<StrValue(SubSeq(s, 1, copylen))>>)

\* unpack_a that takes the whole receiver whatever the count
unpack_a_all(s, slen0, cnt, fl) ==
  LET RECURSIVE Trim(_)
      Trim(c) == IF c > 0 /\ (s[c] = 0 \/ isspace(s[c])) THEN Trim(c - 1) ELSE c
      copylen == IF "a" \notin fl /\ "Z" \notin fl THEN Trim(slen0) ELSE slen0
  IN Took(slen0, <<StrValue(SubSeq(s, 1, copylen))>>)

\* s: the bytes from the cursor on; slen0: srclen - srcidx
unpack_a(s, slen0, cnt, fl) ==
  LET slen1 == IF cnt # -1 /\ cnt < slen0 THEN cnt ELSE slen0
      \* memchr(sptr, '\0', slen): the index of the first NUL, -1 when none
      nul == IF \E i \in 1..slen1 : s[i] = 0
             THEN (CHOOSE i \in 1..slen1 : s[i] = 0 /\ \A j \in 1..(i - 1) : s[j] # 0) - 1
             ELSE -1
      RECURSIVE Trim(_)
      Trim(c) == IF c > 0 /\ (s[c] = 0 \/ isspace(s[c])) THEN Trim(c - 1) ELSE c
      isZ == slen1 >= 0 /\ "Z" \in fl
      copylen0 == IF isZ THEN (IF nul # -1 THEN nul ELSE slen1)
                  ELSE IF "a" \notin fl THEN Trim(slen1)
                  ELSE slen1
      slen == IF isZ /\ nul # -1 /\ cnt = -1 THEN nul + 1 ELSE slen1
      copylen == IF copylen0 < 0 THEN 0 ELSE copylen0
  IN Took(slen, <<StrValue(SubSeq(s, 1, copylen))>>)

---------------------------------------------------------------------------
(* Hex codec: H, h *)

pack_h(s, cnt0, fl) ==
  LET ashift == IF "LSB" \in fl THEN 0 ELSE 4
      bshift == IF "LSB" \in fl THEN 4 ELSE 0
      cnt == IF cnt0 = -1 THEN Len(s) ELSE cnt0
      slen == IF cnt0 # -1 /\ Len(s) > cnt0 THEN cnt0 ELSE Len(s)
      \* one round of the for loop: sp source characters are read already
      RECURSIVE Loop(_, _, _)
      Loop(c, sp, acc) ==
        IF c > 0
        THEN LET a == IF slen - sp > 0 THEN hex2int(s[sp + 1]) ELSE 0
                 sp1 == IF slen - sp > 0 THEN sp + 1 ELSE sp
                 b == IF slen - sp1 > 0 THEN hex2int(s[sp1 + 1]) ELSE 0
                 sp2 == IF slen - sp1 > 0 THEN sp1 + 1 ELSE sp1
             IN Loop(c - 2, sp2, Append(acc, (a * Pow2(ashift) + b * Pow2(bshift)) % 256))
        ELSE acc
  IN Wrote(Loop(cnt, 0, <<>>), cnt)

\* s: the bytes from the cursor on; slen0: srclen - srcidx
unpack_h(s, slen0, cnt0, fl) ==
  LET ashift == IF "LSB" \in fl THEN 0 ELSE 4
      bshift == IF "LSB" \in fl THEN 4 ELSE 0
      cnt == IF cnt0 = -1 THEN slen0 * 2 ELSE cnt0
      RECURSIVE Loop(_, _, _)
      Loop(sp, c, acc) ==
        IF slen0 - sp > 0 /\ c > 0
        THEN LET a == BitAnd(Shr(s[sp + 1], ashift), 15)
                 b == BitAnd(Shr(s[sp + 1], bshift), 15)
                 acc1 == Append(acc, hexadecimal[a + 1])
             IN IF c - 1 > 0
                THEN Loop(sp + 1, c - 2, Append(acc1, hexadecimal[b + 1]))
                ELSE Loop(sp + 1, c - 1, acc1)
        ELSE [n |-> sp, dst |-> acc]
      r == Loop(0, cnt, <<>>)
  IN IF cnt < 0 THEN UnpackRaise("ArgumentError")   \* _str_new(NULL, count)
     ELSE Took(r.n, <<StrValue(r.dst)>>)

---------------------------------------------------------------------------
(* Base64 codec: m *)

\* the base64 character of the five bits of l from bit k on
B64_five_bits(l, k) == base64chars[BitAnd(Shr(l, k), 31) + 1]

B64(l, k) == base64chars[BitAnd(Shr(l, k), 63) + 1]

pack_m(s, cnt0, fl) ==
  LET srclen0 == Len(s)
      cnt == IF cnt0 # 0 /\ cnt0 < 3 THEN 45
             ELSE IF cnt0 >= 3 THEN cnt0 - (cnt0 % 3)
             ELSE cnt0
      dstlen == ((srclen0 + 2) \div 3) * 4
                + (IF cnt > 0
                   THEN (srclen0 \div cnt) + (IF srclen0 % cnt = 0 THEN 0 ELSE 1)
                   ELSE 0)
      \* the for loop: sp bytes are read, column as in the code
      RECURSIVE Loop(_, _, _)
      Loop(sp, column, acc) ==
        LET srclen == srclen0 - sp
        IN IF srclen >= 3
           THEN LET l == s[sp + 1] * 65536 + s[sp + 2] * 256 + s[sp + 3]
                    q == acc \o <<B64(l, 18), B64(l, 12), B64(l, 6), B64(l, 0)>>
                IN IF column = cnt
                   THEN Loop(sp + 3, 0 + 3, Append(q, 10))
                   ELSE Loop(sp + 3, column + 3, q)
           ELSE LET t1 == IF srclen = 1
                          THEN LET l == s[sp + 1] * 65536
                               IN acc \o <<B64(l, 18), B64(l, 12), 61, 61>>
                          ELSE IF srclen = 2
                          THEN LET l == s[sp + 1] * 65536 + s[sp + 2] * 256
                               IN acc \o <<B64(l, 18), B64(l, 12), B64(l, 6), 61>>
                          ELSE acc
                    \* column here is its value when the loop condition failed:
                    \* the loop's "column += 3" has run after the last body
                    col1 == IF srclen = 1 \/ srclen = 2 THEN column + 3 ELSE column
                IN IF col1 > 0 /\ cnt > 0 THEN Append(t1, 10) ELSE t1
  IN IF srclen0 = 0 THEN Wrote(<<>>, 0)
     ELSE Wrote(Loop(0, 3, <<>>), dstlen)


\* tab: base64_dec_tab as the call finds it; s: the bytes from the cursor on;
\* slen0: srclen - srcidx
unpack_m(tab, s, slen0, fl) ==
  LET \* the do-while reading one symbol; sp bytes are read, slen = slen0 - sp
      RECURSIVE Sym(_, _)
      Sym(sp, padding) ==
        IF slen0 - sp = 0 THEN [done |-> TRUE, sp |-> sp, padding |-> padding, v |-> 0]
        ELSE LET c == s[sp + 1]
             IN IF c >= 128 THEN Sym(sp + 1, padding)
                ELSE IF tab[c] = PACK_BASE64_PADDING
                  THEN [done |-> FALSE, sp |-> sp + 1, padding |-> padding + 1, v |-> 0]
                ELSE IF tab[c] = PACK_BASE64_IGNORE THEN Sym(sp + 1, padding)
                ELSE [done |-> FALSE, sp |-> sp + 1, padding |-> padding,
                      v |-> tab[c]]
      \* for (i = 0; i < 4; i++): ch holds the symbols read so far
      RECURSIVE Four(_, _, _)
      Four(sp, padding, ch) ==
        IF Len(ch) = 4 THEN [done |-> FALSE, sp |-> sp, padding |-> padding, ch |-> ch]
        ELSE LET r == Sym(sp, padding)
             IN IF r.done THEN [done |-> TRUE, sp |-> r.sp, padding |-> r.padding, ch |-> ch]
                ELSE Four(r.sp, r.padding, Append(ch, r.v))
      \* while (slen >= 4)
      RECURSIVE Loop(_, _, _)
      Loop(sp, padding, dst) ==
        IF slen0 - sp >= 4
        THEN LET g == Four(sp, padding, <<>>)
                 l == g.ch[1] * 262144 + g.ch[2] * 4096 + g.ch[3] * 64 + g.ch[4]
             IN IF g.done THEN [n |-> g.sp, dst |-> dst]
                ELSE IF g.padding = 0
                  THEN Loop(g.sp, g.padding,
                            dst \o <<BitAnd(Shr(l, 16), 255), BitAnd(Shr(l, 8), 255),
                                     BitAnd(l, 255)>>)
                ELSE IF g.padding = 1
                  THEN [n |-> g.sp,
                        dst |-> dst \o <<BitAnd(Shr(l, 16), 255), BitAnd(Shr(l, 8), 255)>>]
                ELSE [n |-> g.sp, dst |-> Append(dst, BitAnd(Shr(l, 16), 255))]
        ELSE [n |-> sp, dst |-> dst]
      r == Loop(0, 0, <<>>)
  IN Took(r.n, <<StrValue(r.dst)>>)

---------------------------------------------------------------------------
(* Null padding: x *)

pack_x(cnt, fl) == IF cnt < 0 THEN Wrote(<<>>, 0) ELSE Wrote(Rep(cnt, 0), cnt)

\* unpack_x without the check of the bytes that remain
unpack_x_unchecked(slen, cnt, fl) == IF cnt < 0 THEN Took(slen, <<>>) ELSE Took(cnt, <<>>)

unpack_x(slen, cnt, fl) ==
  IF cnt < 0 THEN Took(slen, <<>>)
  ELSE IF slen < cnt THEN UnpackRaise("ArgumentError")
  ELSE Took(cnt, <<>>)

---------------------------------------------------------------------------
(* Template parser *)

SizeofInt == 4

DigitChars == <<"0", "1", "2", "3", "4", "5", "6", "7", "8", "9">>

isdigit(ch) == \E i \in 1..10 : DigitChars[i] = ch

\* ch - '0'
DigitVal(ch) == (CHOOSE i \in 1..10 : DigitChars[i] = ch) - 1

\* strchr("sSiIlLqQ", t) != NULL; the terminating NUL is part of the string
InNativeSizeTypes(t) == t \in {"s", "S", "i", "I", "l", "L", "q", "Q", "NUL"}

Desc(d, ty, sz, fl) == [dir |-> d, type |-> ty, size |-> sz, flags |-> fl]

\* the switch on the directive character, after the aliases are resolved
Directive(t) ==
  CASE t = "A" -> Desc("STR", "STRING", 0, {"WIDTH", "COUNT2"})
    [] t = "a" -> Desc("STR", "STRING", 0, {"WIDTH", "COUNT2", "a"})
    [] t = "C" -> Desc("CHAR", "INTEGER", 1, {})
    [] t = "c" -> Desc("CHAR", "INTEGER", 1, {"SIGNED"})
    [] t \in {"D", "d"} -> Desc("DOUBLE", "FLOAT", 8, {"SIGNED"})
    [] t \in {"F", "f"} -> Desc("FLOAT", "FLOAT", 4, {"SIGNED"})
    [] t = "E" -> Desc("DOUBLE", "FLOAT", 8, {"SIGNED", "LT"})
    [] t = "e" -> Desc("FLOAT", "FLOAT", 4, {"SIGNED", "LT"})
    [] t = "G" -> Desc("DOUBLE", "FLOAT", 8, {"SIGNED", "GT"})
    [] t = "g" -> Desc("FLOAT", "FLOAT", 4, {"SIGNED", "GT"})
    [] t = "H" -> Desc("HEX", "STRING", 0, {"COUNT2"})
    [] t = "h" -> Desc("HEX", "STRING", 0, {"COUNT2", "LSB"})
    [] t = "L" -> Desc("LONG", "INTEGER", 4, {})
    [] t = "l" -> Desc("LONG", "INTEGER", 4, {"SIGNED"})
    [] t = "m" -> Desc("BASE64", "STRING", 0, {"WIDTH"})
    [] t = "N" -> Desc("LONG", "INTEGER", 4, {"GT"})
    [] t = "n" -> Desc("SHORT", "INTEGER", 2, {"GT"})
    [] t = "Q" -> Desc("QUAD", "INTEGER", 8, {})
    [] t = "q" -> Desc("QUAD", "INTEGER", 8, {"SIGNED"})
    [] t = "S" -> Desc("SHORT", "INTEGER", 2, {})
    [] t = "s" -> Desc("SHORT", "INTEGER", 2, {"SIGNED"})
    [] t = "U" -> Desc("UTF8", "INTEGER", 0, {})
    [] t = "V" -> Desc("LONG", "INTEGER", 4, {"LT"})
    [] t = "v" -> Desc("SHORT", "INTEGER", 2, {"LT"})
    [] t = "x" -> Desc("NUL", "NONE", 0, {})
    [] t = "Z" -> Desc("STR", "STRING", 0, {"WIDTH", "COUNT2", "Z"})
    [] OTHER -> Desc("INVALID", "NONE", 0, {})

\* case 'I' / case 'i': the directive of sizeof(int) bytes, "" when there is none
Alias(t0) ==
  IF t0 = "I"
  THEN (CASE SizeofInt = 2 -> "S" [] SizeofInt = 4 -> "L" [] SizeofInt = 8 -> "Q"
          [] OTHER -> "")
  ELSE IF t0 = "i"
  THEN (CASE SizeofInt = 2 -> "s" [] SizeofInt = 4 -> "l" [] SizeofInt = 8 -> "q"
          [] OTHER -> "")
  ELSE t0

\* read_tmpl that pushes back the character before the one that ended the
\* suffix as well
read_tmpl_rewind(tm, idx, le) ==
  LET tlen == Len(tm)
      t == Alias(tm[idx + 1])
      d == Directive(t)
      Result(i, cnt, fl, e) ==
        [idx |-> i, dir |-> d.dir, type |-> d.type, size |-> d.size, count |-> cnt,
         flags |-> fl, err |-> e]
      \* the inner while: more digits of the count
      RECURSIVE Digits(_, _)
      Digits(i, cnt) ==
        IF i < tlen /\ isdigit(tm[i + 1])
        THEN LET c2 == cnt * 10 + DigitVal(tm[i + 1])
             IN IF c2 < 0 THEN [idx |-> i + 1, count |-> c2, err |-> "RuntimeError"]
                ELSE Digits(i + 1, c2)
        ELSE [idx |-> i, count |-> cnt, err |-> ""]
      \* read suffix [0-9*_!<>]
      RECURSIVE Suffix(_, _, _)
      Suffix(i, cnt, fl) ==
        IF i < tlen
        THEN LET ch == tm[i + 1]
             IN IF isdigit(ch)
                THEN LET g == Digits(i + 1, DigitVal(ch))
                     IN IF g.err # "" THEN Result(g.idx, g.count, fl, g.err)
                        ELSE Suffix(g.idx, g.count, fl)
                ELSE IF ch = "*" THEN Suffix(i + 1, -1, fl)
                ELSE IF ch \in {"_", "!", "<", ">"}
                THEN IF ~InNativeSizeTypes(t) THEN Result(i + 1, cnt, fl, "ArgumentError")
                     ELSE Suffix(i + 1, cnt,
                                 fl \cup (IF ch \in {"_", "!"} THEN {"s"}
                                          ELSE IF ch = "<" THEN {"LT"}
                                          ELSE {"GT"}))
                ELSE Result(i - 1, cnt, fl, "")
        ELSE Result(i, cnt, fl, "")
      r == Suffix(idx + 1, 1, d.flags)
  IN IF t = "" THEN Result(idx + 1, 1, {}, "RuntimeError")
     ELSE IF r.err # "" THEN r
     ELSE IF "LT" \in r.flags \/ ("GT" \notin r.flags /\ le)
       THEN [r EXCEPT !.flags = r.flags \cup {"LITTLEENDIAN"}]
     ELSE r

\* read_tmpl that gives every directive the host's byte order
read_tmpl_host_order(tm, idx, le) ==
  LET tlen == Len(tm)
      t == Alias(tm[idx + 1])
      d == Directive(t)
      Result(i, cnt, fl, e) ==
        [idx |-> i, dir |-> d.dir, type |-> d.type, size |-> d.size, count |-> cnt,
         flags |-> fl, err |-> e]
      \* the inner while: more digits of the count
      RECURSIVE Digits(_, _)
      Digits(i, cnt) ==
        IF i < tlen /\ isdigit(tm[i + 1])
        THEN LET c2 == cnt * 10 + DigitVal(tm[i + 1])
             IN IF c2 < 0 THEN [idx |-> i + 1, count |-> c2, err |-> "RuntimeError"]
                ELSE Digits(i + 1, c2)
        ELSE [idx |-> i, count |-> cnt, err |-> ""]
      \* read suffix [0-9*_!<>]
      RECURSIVE Suffix(_, _, _)
      Suffix(i, cnt, fl) ==
        IF i < tlen
        THEN LET ch == tm[i + 1]
             IN IF isdigit(ch)
                THEN LET g == Digits(i + 1, DigitVal(ch))
                     IN IF g.err # "" THEN Result(g.idx, g.count, fl, g.err)
                        ELSE Suffix(g.idx, g.count, fl)
                ELSE IF ch = "*" THEN Suffix(i + 1, -1, fl)
                ELSE IF ch \in {"_", "!", "<", ">"}
                THEN IF ~InNativeSizeTypes(t) THEN Result(i + 1, cnt, fl, "ArgumentError")
                     ELSE Suffix(i + 1, cnt,
                                 fl \cup (IF ch \in {"_", "!"} THEN {"s"}
                                          ELSE IF ch = "<" THEN {"LT"}
                                          ELSE {"GT"}))
                ELSE Result(i + 1 - 1, cnt, fl, "")
        ELSE Result(i, cnt, fl, "")
      r == Suffix(idx + 1, 1, d.flags)
  IN IF t = "" THEN Result(idx + 1, 1, {}, "RuntimeError")
     ELSE IF r.err # "" THEN r
     ELSE IF le
       THEN [r EXCEPT !.flags = r.flags \cup {"LITTLEENDIAN"}]
     ELSE r

\* Reads the directive at tm[idx] (0-based) and its suffix.  Returns the
\* directive, the new tmpl->idx and the exception raised.
read_tmpl(tm, idx, le) ==
  LET tlen == Len(tm)
      t == Alias(tm[idx + 1])
      d == Directive(t)
      Result(i, cnt, fl, e) ==
        [idx |-> i, dir |-> d.dir, type |-> d.type, size |-> d.size, count |-> cnt,
         flags |-> fl, err |-> e]
      \* the inner while: more digits of the count
      RECURSIVE Digits(_, _)
      Digits(i, cnt) ==
        IF i < tlen /\ isdigit(tm[i + 1])
        THEN LET c2 == cnt * 10 + DigitVal(tm[i + 1])
             IN IF c2 < 0 THEN [idx |-> i + 1, count |-> c2, err |-> "RuntimeError"]
                ELSE Digits(i + 1, c2)
        ELSE [idx |-> i, count |-> cnt, err |-> ""]
      \* read suffix [0-9*_!<>]
      RECURSIVE Suffix(_, _, _)
      Suffix(i, cnt, fl) ==
        IF i < tlen
        THEN LET ch == tm[i + 1]
             IN IF isdigit(ch)
                THEN LET g == Digits(i + 1, DigitVal(ch))
                     IN IF g.err # "" THEN Result(g.idx, g.count, fl, g.err)
                        ELSE Suffix(g.idx, g.count, fl)
                ELSE IF ch = "*" THEN Suffix(i + 1, -1, fl)
                ELSE IF ch \in {"_", "!", "<", ">"}
                THEN IF ~InNativeSizeTypes(t) THEN Result(i + 1, cnt, fl, "ArgumentError")
                     ELSE Suffix(i + 1, cnt,
                                 fl \cup (IF ch \in {"_", "!"} THEN {"s"}
                                          ELSE IF ch = "<" THEN {"LT"}
                                          ELSE {"GT"}))
                ELSE Result(i + 1 - 1, cnt, fl, "")
        ELSE Result(i, cnt, fl, "")
      r == Suffix(idx + 1, 1, d.flags)
  IN IF t = "" THEN Result(idx + 1, 1, {}, "RuntimeError")
     ELSE IF r.err # "" THEN r
     ELSE IF "LT" \in r.flags \/ ("GT" \notin r.flags /\ le)
       THEN [r EXCEPT !.flags = r.flags \cup {"LITTLEENDIAN"}]
     ELSE r

has_tmpl(tm, idx) == idx < Len(tm)

---------------------------------------------------------------------------
(* Numeric coercion of the interpreter core: _to_int, _to_flo.  An integer  *)
(* outside MRB_INT_MIN..MRB_INT_MAX is no Fixnum: the interpreter holds it  *)
(* as a Float, which _to_int refuses.                                       *)

Coerced(v) == [v |-> v, err |-> ""]
CoerceRaise(e) == [v |-> NilValue, err |-> e]

\* the value of a 9-byte integer n, -2^31 <= n < 2^31
SmallInt(bs) ==
  IF bs[4] < 128
  THEN bs[1] + 256 * bs[2] + 65536 * bs[3] + 16777216 * bs[4]
  ELSE -((255 - bs[1]) + 256 * (255 - bs[2]) + 65536 * (255 - bs[3])
         + 16777216 * (255 - bs[4])) - 1

\* floor(log2(a)), a > 0
RECURSIVE Log2(_)
Log2(a) == IF a < 2 THEN 0 ELSE 1 + Log2(a \div 2)

\* (double)n, |n| < 2^28
IntToDouble(n) ==
  LET a == IF n < 0 THEN -n ELSE n
      e == Log2(a)
      m28 == (a - Pow2(e)) * Pow2(28 - e)
      exp11 == 1023 + e
      sign == IF n < 0 THEN 1 ELSE 0
  IN IF n = 0 THEN Rep(8, 0)
     ELSE <<sign * 128 + exp11 \div 16, (exp11 % 16) * 16 + m28 \div 16777216,
            (m28 \div 65536) % 256, (m28 \div 256) % 256, m28 % 256, 0, 0, 0>>

\* (_int)d of a double given by its bits; the model holds doubles below
\* 2^28 in magnitude and doubles no Fixnum holds
DoubleToInt(d, i64) ==
  LET exp11 == (d[1] % 128) * 16 + d[2] \div 16
      e == exp11 - 1023
      m28 == (d[2] % 16) * 16777216 + d[3] * 65536 + d[4] * 256 + d[5]
      a == (Pow2(28) + m28) \div Pow2(28 - e)
  IN CASE exp11 = 2047 -> CoerceRaise("FloatDomainError")
       [] exp11 < 2047 /\ e < 0 -> Coerced(FixnumValue(IntBytes(0)))
       [] e >= 0 /\ e <= 27 ->
            Coerced(FixnumValue(IntBytes(IF d[1] >= 128 THEN -a ELSE a)))
       [] exp11 < 2047 /\ e >= (IF i64 THEN 63 ELSE 31) -> CoerceRaise("RangeError")

to_int(o, i64) ==
  CASE o.k = "int" -> IF Fixable(o.b, i64) THEN Coerced(o) ELSE CoerceRaise("RangeError")
    [] o.k = "flo" -> DoubleToInt(DoubleBits(o), i64)
    [] OTHER -> CoerceRaise("TypeError")

\* _to_flo of a Fixnum below 2^28 in magnitude
to_flo(o, i64) ==
  CASE o.k = "flo" -> Coerced(o)
    [] o.k = "int" -> Coerced(FloatValue(IntToDouble(SmallInt(o.b))))
    [] OTHER -> CoerceRaise("TypeError")

---------------------------------------------------------------------------
(* The engines.  A step maps the state of the call, a record of the         *)
(* variables, to its next state.                                            *)

Cur ==
  [littleendian |-> littleendian, int64 |-> int64, op |-> op, pc |-> pc,
   tmpl |-> tmpl, tidx |-> tidx, dir |-> dir, type |-> type, size |-> size,
   count |-> count, flags |-> flags, ary |-> ary, aidx |-> aidx,
   result |-> result, ridx |-> ridx, cap |-> cap, src |-> src,
   srcidx |-> srcidx, out |-> out, ret |-> ret, err |-> err,
   dec_tab |-> dec_tab]

Becomes(n) ==
  /\ littleendian' = n.littleendian /\ int64' = n.int64 /\ op' = n.op /\ pc' = n.pc
  /\ tmpl' = n.tmpl /\ tidx' = n.tidx /\ dir' = n.dir /\ type' = n.type
  /\ size' = n.size /\ count' = n.count /\ flags' = n.flags /\ ary' = n.ary
  /\ aidx' = n.aidx /\ result' = n.result /\ ridx' = n.ridx /\ cap' = n.cap
  /\ src' = n.src /\ srcidx' = n.srcidx /\ out' = n.out /\ ret' = n.ret
  /\ err' = n.err /\ dec_tab' = n.dec_tab
  /\ UNCHANGED <<inits, gem_pc, gem_i, ExcVars>>

\* _raise: the call is left with the exception e, and returns nothing
Raised(s, e) == [s EXCEPT !.pc = "raised", !.err = e]

\* the directive read_tmpl returned, stored in the engine's locals
WithDirective(s, r) ==
  [s EXCEPT !.tidx = r.idx, !.dir = r.dir, !.type = r.type, !.size = r.size,
            !.count = r.count, !.flags = r.flags]

\* ridx += codec(...): the codec's str_len_ensure, then its bytes at ridx
Written(s, w) ==
  LET n == str_len_ensure(s.cap, s.ridx + w.need)
  IN IF w.err # "" THEN Raised(s, w.err)
     ELSE IF n < 0 THEN Raised(s, "RangeError")
     ELSE [s EXCEPT !.cap = n, !.result = s.result \o w.bytes,
                    !.ridx = s.ridx + Len(w.bytes)]

\* _pack_pack: prepare_tmpl and the initial buffer
InitialCapacity == 128

PackCall(s) ==
  [s EXCEPT !.pc = "pack_tmpl", !.tidx = 0, !.aidx = 0, !.ridx = 0,
            !.result = <<>>, !.cap = InitialCapacity]

\* the round of _pack_pack that takes an invalid directive into the for loop
PackReadTmplStep_no_skip(s) ==
  LET r == read_tmpl(s.tmpl, s.tidx, s.littleendian)
      d == WithDirective(s, r)
  IN IF r.err # "" THEN Raised([s EXCEPT !.tidx = r.idx], r.err)
     ELSE IF r.dir = "NUL" THEN Written(d, pack_x(r.count, r.flags))
     ELSE [d EXCEPT !.pc = "pack_loop"]

\* _pack_pack: one round of while (has_tmpl(&tmpl)) up to the for loop
PackReadTmplStep(s) ==
  LET r == read_tmpl(s.tmpl, s.tidx, s.littleendian)
      d == WithDirective(s, r)
  IN IF r.err # "" THEN Raised([s EXCEPT !.tidx = r.idx], r.err)
     ELSE IF r.dir = "INVALID" THEN d
     ELSE IF r.dir = "NUL" THEN Written(d, pack_x(r.count, r.flags))
     ELSE [d EXCEPT !.pc = "pack_loop"]

\* the codec of the directive, applied to the coerced value o
PackCodec(s, o) ==
  CASE s.dir = "CHAR" -> pack_c(o, s.flags)
    [] s.dir = "SHORT" -> pack_s(o, s.flags)
    [] s.dir = "LONG" -> pack_l(o, s.flags)
    [] s.dir = "QUAD" -> pack_q(o, s.flags)
    [] s.dir = "BASE64" -> pack_m(o.b, s.count, s.flags)
    [] s.dir = "HEX" -> pack_h(o.b, s.count, s.flags)
    [] s.dir = "STR" -> pack_a(o.b, s.count, s.flags)
    [] s.dir = "DOUBLE" -> pack_double(o, s.flags, s.littleendian)
    [] s.dir = "FLOAT" -> pack_float(o, s.flags, s.littleendian)
    [] s.dir = "UTF8" -> pack_utf8(o, s.flags)
    [] OTHER -> Wrote(<<>>, 0)

\* the end of one round of the while loop: the check of ridx
PackAfterLoop(s) ==
  IF s.ridx < 0 THEN Raised(s, "RangeError") ELSE [s EXCEPT !.pc = "pack_tmpl"]

\* the value loop without the countdown of count
PackLoopStep_no_countdown(s) ==
  LET o0 == s.ary[s.aidx + 1]
      c == CASE s.type = "INTEGER" -> to_int(o0, s.int64)
             [] s.type = "FLOAT" -> to_flo(o0, s.int64)
             [] s.type = "STRING" ->
                  IF o0.k = "str" THEN Coerced(o0) ELSE CoerceRaise("TypeError")
             [] OTHER -> Coerced(o0)
      w == Written(s, PackCodec(s, c.v))
  IN IF ~(s.aidx < Len(s.ary)) THEN PackAfterLoop(s)
     ELSE IF s.count = 0 /\ "WIDTH" \notin s.flags THEN PackAfterLoop(s)
     ELSE IF c.err # "" THEN Raised(s, c.err)
     ELSE IF w.err # "" THEN w
     ELSE IF s.dir = "STR" THEN PackAfterLoop([w EXCEPT !.aidx = s.aidx + 1])
     ELSE [w EXCEPT !.aidx = s.aidx + 1]

\* the value loop that raises when the directive still wants a value and
\* none is left
PackLoopStep_too_few(s) ==
  LET o0 == s.ary[s.aidx + 1]
      c == CASE s.type = "INTEGER" -> to_int(o0, s.int64)
             [] s.type = "FLOAT" -> to_flo(o0, s.int64)
             [] s.type = "STRING" ->
                  IF o0.k = "str" THEN Coerced(o0) ELSE CoerceRaise("TypeError")
             [] OTHER -> Coerced(o0)
      w == Written(s, PackCodec(s, c.v))
  IN IF ~(s.aidx < Len(s.ary))
       THEN IF s.count > 0 THEN Raised(s, "ArgumentError") ELSE PackAfterLoop(s)
     ELSE IF s.count = 0 /\ "WIDTH" \notin s.flags THEN PackAfterLoop(s)
     ELSE IF c.err # "" THEN Raised(s, c.err)
     ELSE IF w.err # "" THEN w
     ELSE IF s.dir = "STR" THEN PackAfterLoop([w EXCEPT !.aidx = s.aidx + 1])
     ELSE [w EXCEPT !.aidx = s.aidx + 1,
                    !.count = IF s.count > 0 THEN s.count - 1 ELSE s.count]

\* _pack_pack: the test and one round of for (; aidx < RARRAY_LEN(ary); aidx++)
PackLoopStep(s) ==
  LET o0 == s.ary[s.aidx + 1]
      c == CASE s.type = "INTEGER" -> to_int(o0, s.int64)
             [] s.type = "FLOAT" -> to_flo(o0, s.int64)
             [] s.type = "STRING" ->
                  IF o0.k = "str" THEN Coerced(o0) ELSE CoerceRaise("TypeError")
             [] OTHER -> Coerced(o0)
      w == Written(s, PackCodec(s, c.v))
  IN IF ~(s.aidx < Len(s.ary)) THEN PackAfterLoop(s)
     ELSE IF s.count = 0 /\ "WIDTH" \notin s.flags THEN PackAfterLoop(s)
     ELSE IF c.err # "" THEN Raised(s, c.err)
     ELSE IF w.err # "" THEN w
     ELSE IF s.dir = "STR" THEN PackAfterLoop([w EXCEPT !.aidx = s.aidx + 1])
     ELSE [w EXCEPT !.aidx = s.aidx + 1,
                    !.count = IF s.count > 0 THEN s.count - 1 ELSE s.count]

\* _pack_pack: _str_resize(result, ridx) and return
PackReturnStep(s) == [s EXCEPT !.pc = "done", !.ret = <<StrValue(s.result)>>]

---------------------------------------------------------------------------
(* The unpack engine *)

\* pack_unpack: prepare_tmpl, the cursor and the result array
UnpackCall(s) ==
  [s EXCEPT !.pc = "unpack_tmpl", !.tidx = 0, !.srcidx = 0, !.out = <<>>]

\* RSTRING_PTR(str) + srcidx: the bytes from the cursor on
AtCursor(s) == SubSeq(s.src, s.srcidx + 1, Len(s.src))

\* srcidx += codec(...): the values pushed and the bytes consumed
Consumed(s, u) ==
  IF u.err # "" THEN Raised(s, u.err)
  ELSE [s EXCEPT !.srcidx = s.srcidx + u.n, !.out = s.out \o u.vals]

\* pack_unpack: one round of while (has_tmpl(&tmpl)) up to the count loop.
\* unpack_x is handed sptr before it is set, and does not read it.
UnpackReadTmplStep(s) ==
  LET r == read_tmpl(s.tmpl, s.tidx, s.littleendian)
      d == WithDirective(s, r)
      srclen == Len(s.src)
  IN IF r.err # "" THEN Raised([s EXCEPT !.tidx = r.idx], r.err)
     ELSE IF r.dir = "INVALID" THEN d
     ELSE IF r.dir = "NUL"
       THEN Consumed(d, unpack_x(srclen - s.srcidx, r.count, r.flags))
     ELSE IF "COUNT2" \in r.flags
       THEN IF r.dir = "HEX"
            THEN Consumed(d, unpack_h(AtCursor(s), srclen - s.srcidx, r.count, r.flags))
            ELSE IF r.dir = "STR"
            THEN Consumed(d, unpack_a(AtCursor(s), srclen - s.srcidx, r.count, r.flags))
            ELSE d
     ELSE [d EXCEPT !.pc = "unpack_loop"]

\* the codec of the directive, applied at the cursor
UnpackCodec(s) ==
  LET p == AtCursor(s)
      n == Len(s.src) - s.srcidx
  IN CASE s.dir = "CHAR" -> unpack_c(p, s.flags)
       [] s.dir = "SHORT" -> unpack_s(p, s.flags)
       [] s.dir = "LONG" -> unpack_l(p, s.flags, s.int64)
       [] s.dir = "QUAD" -> unpack_q(p, s.flags, s.int64)
       [] s.dir = "BASE64" -> unpack_m(s.dec_tab, p, n, s.flags)
       [] s.dir = "FLOAT" -> unpack_float(p, s.flags, s.littleendian)
       [] s.dir = "DOUBLE" -> unpack_double(p, s.flags, s.littleendian)
       [] s.dir = "UTF8" -> unpack_utf8(p, n, s.flags)
       [] OTHER -> UnpackRaise("RuntimeError")

\* the end of one round of the while loop: if (single) break
UnpackAfterLoop(s) ==
  IF s.op = "unpack1" THEN [s EXCEPT !.pc = "unpack_ret"] ELSE [s EXCEPT !.pc = "unpack_tmpl"]

\* the count loop without the nils for the elements the receiver lacks
UnpackLoopStep_no_nils(s) ==
  IF s.count = 0 THEN UnpackAfterLoop(s)
  ELSE IF Len(s.src) - s.srcidx < s.size THEN UnpackAfterLoop(s)
  ELSE LET c == Consumed(s, UnpackCodec(s))
       IN IF c.err # "" THEN c
          ELSE [c EXCEPT !.count = IF s.count > 0 THEN s.count - 1 ELSE s.count]

\* pack_unpack: the test and one round of while (count != 0)
UnpackLoopStep(s) ==
  IF s.count = 0 THEN UnpackAfterLoop(s)
  ELSE IF Len(s.src) - s.srcidx < s.size
    THEN UnpackAfterLoop([s EXCEPT !.out = s.out \o Rep(IF s.count > 0 THEN s.count ELSE 0,
                                                        NilValue),
                                   !.count = IF s.count > 0 THEN -1 ELSE s.count - 1])
  ELSE LET c == Consumed(s, UnpackCodec(s))
       IN IF c.err # "" THEN c
          ELSE [c EXCEPT !.count = IF s.count > 0 THEN s.count - 1 ELSE s.count]

\* pack_unpack: the return.  With single set it returns RARRAY_PTR(result)[0],
\* also of an empty array: that read is outside the array's elements, and
\* gives the value junk the build leaves there, or ends the process.
UnpackReturnStep(s, junk) ==
  IF s.op = "unpack1"
  THEN IF Len(s.out) > 0 THEN [s EXCEPT !.pc = "done", !.ret = <<s.out[1]>>]
       ELSE IF junk.k = "crash" THEN [s EXCEPT !.pc = "crashed"]
       ELSE [s EXCEPT !.pc = "done", !.ret = <<junk>>]
  ELSE [s EXCEPT !.pc = "done", !.ret = s.out]

\* the outcomes of reading element 0 of an empty array
JunkValues == {Val("crash", <<>>), NilValue, FixnumValue(IntBytes(0)), StrValue(<<>>)}

\* the bound of the result array in the model: unpack of "m*" never leaves
\* its count loop
MaxOut == 12

\* a whole call of _pack_pack or pack_unpack from the state s: the state it
\* returns or raises in.  An unpack1 that reads element 0 of an empty array
\* is given nil.
RECURSIVE Outcome(_)
Outcome(s) ==
  CASE s.pc = "idle" /\ s.op = "pack" -> Outcome(PackCall(s))
    [] s.pc = "idle" /\ s.op \in {"unpack", "unpack1"} -> Outcome(UnpackCall(s))
    [] s.pc = "pack_tmpl" ->
         IF has_tmpl(s.tmpl, s.tidx) THEN Outcome(PackReadTmplStep(s))
         ELSE PackReturnStep(s)
    [] s.pc = "pack_loop" -> Outcome(PackLoopStep(s))
    [] s.pc = "unpack_tmpl" ->
         IF has_tmpl(s.tmpl, s.tidx) THEN Outcome(UnpackReadTmplStep(s))
         ELSE UnpackReturnStep(s, NilValue)
    [] s.pc = "unpack_loop" ->
         IF Len(s.out) < MaxOut THEN Outcome(UnpackLoopStep(s)) ELSE s
    [] s.pc = "unpack_ret" -> UnpackReturnStep(s, NilValue)
    [] OTHER -> s

---------------------------------------------------------------------------
(* The calls as a state machine.  A behaviour is one call of pack, unpack   *)
(* or unpack1 on a receiver and a template, or a pack whose result is then  *)
(* unpacked with the same template.                                         *)

Scenario(o, tm, a, s) == [op |-> o, tmpl |-> tm, ary |-> a, src |-> s]

\* the state before the call of a scenario on a build
Start(sc, le, i64) ==
  [littleendian |-> le, int64 |-> i64, op |-> sc.op, pc |-> "idle",
   tmpl |-> sc.tmpl, tidx |-> 0, dir |-> "INVALID", type |-> "NONE", size |-> 0,
   count |-> 0, flags |-> {}, ary |-> sc.ary, aidx |-> 0, result |-> <<>>,
   ridx |-> 0, cap |-> 0, src |-> sc.src, srcidx |-> 0, out |-> <<>>,
   ret |-> <<>>, err |-> "", dec_tab |-> base64_dec_tab]

\* no exception helper is running
NoFrame == [fn |-> "none", at |-> "none"]

\* the call starts in a process whose one interpreter state has run
\* _mruby_pack_gem_init to its end
Begin(sc, le, i64) ==
  LET s == Start(sc, le, i64)
  IN /\ littleendian = s.littleendian /\ int64 = s.int64 /\ op = s.op /\ pc = s.pc
     /\ tmpl = s.tmpl /\ tidx = s.tidx /\ dir = s.dir /\ type = s.type
     /\ size = s.size /\ count = s.count /\ flags = s.flags /\ ary = s.ary
     /\ aidx = s.aidx /\ result = s.result /\ ridx = s.ridx /\ cap = s.cap
     /\ src = s.src /\ srcidx = s.srcidx /\ out = s.out /\ ret = s.ret
     /\ err = s.err /\ dec_tab = s.dec_tab
     /\ inits = 1 /\ gem_pc = "ready" /\ gem_i = 0
     /\ mrb = [jmp |-> "NULL", exc |-> "NULL"] /\ frame = NoFrame /\ calls = <<>>

PackBegin ==
  /\ pc = "idle" /\ op \in {"pack", "roundtrip"}
  /\ Becomes(PackCall(Cur))

PackReadTmpl ==
  /\ pc = "pack_tmpl" /\ has_tmpl(tmpl, tidx)
  /\ Becomes(PackReadTmplStep(Cur))

\* the step from s to n has stored bytes past the length str_len_ensure gave
\* the buffer
Overrun(s, n) == n.pc # "raised" /\ n.ridx # s.ridx /\ n.ridx > n.cap

\* a store outside the buffer either lands in memory the build lets the call
\* use, or ends the process
PackLoop ==
  /\ pc = "pack_loop"
  /\ LET n == PackLoopStep(Cur)
     IN \/ Becomes(n)
        \/ Overrun(Cur, n) /\ Becomes([n EXCEPT !.pc = "crashed"])

PackReturn ==
  /\ pc = "pack_tmpl" /\ ~has_tmpl(tmpl, tidx)
  /\ Becomes(PackReturnStep(Cur))

\* the packed string becomes the receiver of unpack, with the same template
UnpackPacked ==
  /\ pc = "done" /\ op = "roundtrip"
  /\ Becomes(UnpackCall([Cur EXCEPT !.op = "unpack_packed", !.src = ret[1].b]))

UnpackBegin ==
  /\ pc = "idle" /\ op \in {"unpack", "unpack1"}
  /\ Becomes(UnpackCall(Cur))

UnpackReadTmpl ==
  /\ pc = "unpack_tmpl" /\ has_tmpl(tmpl, tidx)
  /\ Becomes(UnpackReadTmplStep(Cur))

UnpackLoop ==
  /\ pc = "unpack_loop" /\ Len(out) < MaxOut
  /\ Becomes(UnpackLoopStep(Cur))

UnpackReturn ==
  /\ \/ pc = "unpack_tmpl" /\ ~has_tmpl(tmpl, tidx)
     \/ pc = "unpack_ret"
  /\ \E junk \in JunkValues : Becomes(UnpackReturnStep(Cur, junk))

Next ==
  \/ PackBegin \/ PackReadTmpl \/ PackLoop \/ PackReturn
  \/ UnpackBegin \/ UnpackReadTmpl \/ UnpackLoop \/ UnpackReturn

NextRT ==
  \/ PackBegin \/ PackReadTmpl \/ PackLoop \/ PackReturn
  \/ UnpackPacked \/ UnpackReadTmpl \/ UnpackLoop \/ UnpackReturn

NextPack == PackBegin \/ PackReadTmpl \/ PackLoop \/ PackReturn

---------------------------------------------------------------------------
(* The gem's init.  Every interpreter state that is opened runs             *)
(* _mruby_pack_gem_init, and each run stores to the two statics again; a    *)
(* call in a state opened earlier takes its steps between these stores.     *)

\* the interpreter states one process opens
MaxStates == 2

CallVars == <<int64, op, pc, tmpl, tidx, dir, type, size, count, flags, ary, aidx,
              result, ridx, cap, src, srcidx, out, ret, err>>

\* a further interpreter state is opened and enters _mruby_pack_gem_init
GemInitBegin ==
  /\ gem_pc = "ready" /\ inits < MaxStates
  /\ inits' = inits + 1 /\ gem_pc' = "endian" /\ gem_i' = 0
  /\ UNCHANGED <<CallVars, ExcVars, littleendian, dec_tab>>

\* littleendian = check_little_endian(): the host's byte order, which the
\* flag holds since the first init, is stored once more
GemInitEndian ==
  /\ gem_pc = "endian"
  /\ littleendian' = littleendian /\ gem_pc' = "memset"
  /\ UNCHANGED <<CallVars, ExcVars, dec_tab, inits, gem_i>>

\* memset(base64_dec_tab, PACK_BASE64_IGNORE, sizeof(base64_dec_tab))
GemInitMemset ==
  /\ gem_pc = "memset"
  /\ dec_tab' = [c \in 0..127 |-> PACK_BASE64_IGNORE]
  /\ gem_pc' = "upper" /\ gem_i' = 0
  /\ UNCHANGED <<CallVars, ExcVars, littleendian, inits>>

\* one iteration of a loop of n stores base64_dec_tab[first + i] = i + value,
\* after the last of which the init is at the position then
GemInitStore(first, value, n, then) ==
  /\ dec_tab' = [dec_tab EXCEPT ![first + gem_i] = gem_i + value]
  /\ IF gem_i + 1 < n THEN gem_i' = gem_i + 1 /\ gem_pc' = gem_pc
     ELSE gem_i' = 0 /\ gem_pc' = then
  /\ UNCHANGED <<CallVars, ExcVars, littleendian, inits>>

\* base64_dec_tab['A' + i] = i
GemInitUpper == gem_pc = "upper" /\ GemInitStore(65, 0, 26, "lower")

\* base64_dec_tab['a' + i] = i + 26
GemInitLower == gem_pc = "lower" /\ GemInitStore(97, 26, 26, "digit")

\* base64_dec_tab['0' + i] = i + 52
GemInitDigit == gem_pc = "digit" /\ GemInitStore(48, 52, 10, "plus")

\* base64_dec_tab['+'] = 62
GemInitPlus == gem_pc = "plus" /\ GemInitStore(43, 62, 1, "slash")

\* base64_dec_tab['/'] = 63
GemInitSlash == gem_pc = "slash" /\ GemInitStore(47, 63, 1, "pad")

\* base64_dec_tab['='] = PACK_BASE64_PADDING, and the init returns
GemInitPad == gem_pc = "pad" /\ GemInitStore(61, PACK_BASE64_PADDING, 1, "ready")

NextInit ==
  \/ GemInitBegin \/ GemInitEndian \/ GemInitMemset \/ GemInitUpper
  \/ GemInitLower \/ GemInitDigit \/ GemInitPlus \/ GemInitSlash \/ GemInitPad
  \/ UnpackBegin \/ UnpackReadTmpl \/ UnpackLoop \/ UnpackReturn

---------------------------------------------------------------------------
(* Inputs *)

\* the digits of a count n < 100, as template characters
CountChars(n) ==
  IF n < 10 THEN <<DigitChars[n + 1]>>
  ELSE <<DigitChars[(n \div 10) + 1], DigitChars[(n % 10) + 1]>>

\* the directive characters of the switch, and characters it does not know
DirChars ==
  {"A", "a", "C", "c", "D", "d", "E", "e", "F", "f", "G", "g", "H", "h", "I", "i",
   "L", "l", "m", "N", "n", "Q", "q", "S", "s", "U", "V", "v", "x", "Z"}

UnknownChars == {"y", " ", "NUL", "@"}

ModifierChars == {"_", "!", "<", ">"}

Fix(n) == FixnumValue(IntBytes(n))

\* all byte strings of length n over the bytes of alphabet
RECURSIVE StringsOfLen(_, _)
StringsOfLen(alphabet, n) ==
  IF n = 0 THEN {<<>>}
  ELSE {Append(s, b) : s \in StringsOfLen(alphabet, n - 1), b \in alphabet}

StringsUpTo(alphabet, n) == UNION {StringsOfLen(alphabet, k) : k \in 0..n}

\* byte i of the sample string of a seed: seed 0 is all 0xFF
PatByte(seed, i) == IF seed = 0 THEN 255 ELSE (i * 37 + 20 * seed) % 256

Pattern(len, seed) == [i \in 1..len |-> PatByte(seed, i)]

Configs == {<<le, i64>> : le \in BOOLEAN, i64 \in BOOLEAN}

---------------------------------------------------------------------------
(* Spec: templates.  A group of any directive character and any suffix,     *)
(* alone, after a directive, before a directive or between two.             *)

\* the suffixes of a group: a count, a modifier, or both in either order
Suffixes ==
  {<<>>, <<"*">>, <<"2">>, <<"1", "0">>}
    \cup {<<m>> : m \in ModifierChars}
    \cup {<<"2", "<">>, <<">", "2">>}

TmplArrays ==
  {<<>>, <<Fix(65), Fix(66), StrValue(<<99, 100>>)>>,
   <<Fix(65), StrValue(<<52, 49>>), StrValue(<<99, 100>>)>>,
   <<StrValue(<<52, 49>>), StrValue(<<99, 100>>)>>,
   <<Fix(258), Fix(66)>>}

TmplSources == {<<>>, <<65, 66, 67, 68, 69>>, <<1, 2, 3, 4, 5, 6, 7, 8, 9, 10, 11>>}

TmplGroups == {<<ch>> \o sfx : ch \in DirChars \cup UnknownChars, sfx \in Suffixes}

PackTemplates ==
  {pre \o g \o post : pre \in {<<>>, <<"C">>}, g \in TmplGroups, post \in {<<>>, <<"a", "2">>}}

UnpackTemplates ==
  {pre \o g \o post :
     pre \in {<<>>, <<"C">>}, g \in TmplGroups, post \in {<<>>, <<"a", "2">>, <<"x", "9">>}}

TmplScenarios ==
  {Scenario("pack", tm, a, <<>>) : tm \in PackTemplates, a \in TmplArrays}
    \cup {Scenario("unpack", tm, <<>>, s) : tm \in UnpackTemplates, s \in TmplSources}
    \cup {Scenario("unpack1", tm, <<>>, s) :
            tm \in UnpackTemplates \cup {<<>>}, s \in TmplSources}

Init == \E sc \in TmplScenarios : Begin(sc, TRUE, TRUE)

Spec == Init /\ [][Next]_vars

---------------------------------------------------------------------------
(* SpecNum: the fixed-width numeric and float directives with a count       *)

MaxCount == 3
MaxSrcLen == 9
NumSeeds == 2

NumDirChars ==
  {"C", "c", "S", "s", "L", "l", "Q", "q", "N", "n", "V", "v", "I", "i",
   "D", "d", "E", "e", "F", "f", "G", "g"}

\* count suffixes: none, a number, "*"
CountSuffixes == {<<>>, <<"*">>} \cup {CountChars(n) : n \in 0..MaxCount}

NumTemplates ==
  {pre \o <<ch>> \o sfx : pre \in {<<>>, <<"x">>}, ch \in NumDirChars, sfx \in CountSuffixes}

NumSources == {Pattern(len, seed) : len \in 0..MaxSrcLen, seed \in 0..(NumSeeds - 1)}

NumArrays == {<<>>, <<Fix(65)>>, <<Fix(-2), Fix(258), Fix(66), Fix(3), Fix(4)>>}

NumScenarios ==
  {Scenario("unpack", tm, <<>>, s) : tm \in NumTemplates, s \in NumSources}
    \cup {Scenario("pack", tm, a, <<>>) : tm \in NumTemplates, a \in NumArrays}

\* unpack of U: a leading byte of each class, followed by up to MaxCont
\* continuation bytes, alone or after a one-byte character
MaxCont == 5
Utf8Leads == {65, 130, 195, 226, 240, 248, 252, 254}

\* the least and the greatest value of five and of six bytes
Utf8LongSequences ==
  {<<248, 136, 128, 128, 128>>, <<251, 191, 191, 191, 191>>,
   <<252, 132, 128, 128, 128, 128>>, <<253, 191, 191, 191, 191, 191>>}

Utf8Sources ==
  {<<>>, <<226, 65, 130>>, <<240, 130, 65>>}
    \cup Utf8LongSequences
    \cup {pre \o <<b>> \o Rep(k, 130) :
            pre \in {<<>>, <<65>>}, b \in Utf8Leads, k \in 0..MaxCont}

Utf8Templates ==
  {pre \o <<"U">> \o sfx : pre \in {<<>>, <<"x">>}, sfx \in CountSuffixes}
    \cup {<<"U", "C">>, <<"U", "a">>, <<"U", "U">>, <<"U", "x", "0">>}

Utf8UnpackScenarios ==
  {Scenario("unpack", tm, <<>>, s) : tm \in Utf8Templates, s \in Utf8Sources}

InitNum ==
  \/ \E sc \in NumScenarios, c \in Configs : Begin(sc, c[1], c[2])
  \/ \E sc \in Utf8UnpackScenarios : Begin(sc, TRUE, TRUE)

SpecNum == InitNum /\ [][Next]_vars

---------------------------------------------------------------------------
(* SpecStr: the string directives with a count                              *)

MaxStrLen == 3
MaxStrCount == 5

StrDirChars == {"A", "a", "Z", "H", "h", "m"}

\* 'a', space, NUL, newline
StrAlphabet == {97, 32, 0, 10}

StrStrings ==
  StringsUpTo(StrAlphabet, MaxStrLen)
    \cup {<<97, 200>>, <<200, 9>>, <<97, 11, 12, 13>>, <<97, 98, 99, 100, 101, 102, 103>>}

StrTemplates ==
  {<<ch>> \o sfx :
     ch \in StrDirChars,
     sfx \in {<<>>, <<"*">>} \cup {CountChars(n) : n \in 0..MaxStrCount}}

StrScenarios ==
  {Scenario("pack", tm, <<StrValue(s)>>, <<>>) : tm \in StrTemplates, s \in StrStrings}
    \cup {Scenario("pack", tm, <<StrValue(<<97, 98>>), StrValue(<<99>>)>>, <<>>) :
            tm \in StrTemplates}
    \cup {Scenario("unpack", tm, <<>>, s) : tm \in StrTemplates, s \in StrStrings}
    \cup {Scenario("unpack", <<"x">> \o tm, <<>>, s) :
            tm \in {t \in StrTemplates : t[1] \in {"A", "a"}}, s \in StrStrings}

\* pack of base64 lines that end where the buffer ends: after 3 bytes of
\* "x3", "m3" reserves 5 bytes for every 3 of its string, 125 for 75; after 6
\* bytes of "x6", "m" reserves 122 for 90
EdgeScenarios ==
  {Scenario("pack", <<"x", "3", "m", "3">>, <<StrValue(Rep(n, 97))>>, <<>>) :
     n \in 72..78}
    \cup {Scenario("pack", <<"x", "6", "m">>, <<StrValue(Rep(n, 97))>>, <<>>) :
            n \in 89..91}

InitStr == \E sc \in StrScenarios \cup EdgeScenarios : Begin(sc, TRUE, TRUE)

SpecStr == InitStr /\ [][Next]_vars

---------------------------------------------------------------------------
(* SpecRT: pack, then unpack of the packed string with the same template    *)

IntDirChars == {"C", "c", "S", "s", "n", "v", "L", "l", "N", "V", "Q", "q"}

\* 2^k, 2^k - 1, -2^k and -2^k - 1 as 9-byte integers, k < 72
TwoTo(k) == [i \in 1..9 |-> IF i = (k \div 8) + 1 THEN Pow2(k % 8) ELSE 0]
TwoToLess1(k) ==
  [i \in 1..9 |-> IF i <= k \div 8 THEN 255
                  ELSE IF i = (k \div 8) + 1 THEN Pow2(k % 8) - 1
                  ELSE 0]
Complement(bs) == [i \in 1..9 |-> 255 - bs[i]]

\* the integers at the edges of the 8, 16, 32 and 64 bit ranges, and
\* integers of each width with distinct bytes
IntSamples ==
  LET edges == {0, 7, 8, 15, 16, 31, 32, 63, 64}
  IN {TwoTo(k) : k \in edges} \cup {TwoToLess1(k) : k \in edges}
       \cup {Complement(TwoToLess1(k)) : k \in edges}
       \cup {Complement(TwoTo(k)) : k \in edges}
       \cup {ZeroExt(Pattern(w, seed)) : w \in {1, 2, 4, 8}, seed \in 0..(NumSeeds - 1)}
       \cup {SignExt(Pattern(w, seed)) : w \in {1, 2, 4, 8}, seed \in 0..(NumSeeds - 1)}

IntScenarios ==
  {Scenario("roundtrip", <<ch>>, <<FixnumValue(v)>>, <<>>) :
     ch \in IntDirChars, v \in IntSamples}

\* base64: every short string, and strings around whole lines of 45 bytes
MaxLines == 2
Base64Strings ==
  StringsUpTo({0, 255, 61, 10}, MaxStrLen)
    \cup {Pattern(45 * n + d, seed) :
            n \in 1..MaxLines, d \in {-1, 0, 1}, seed \in 0..(NumSeeds - 1)}

Base64Scenarios ==
  {Scenario("roundtrip", <<"m">>, <<StrValue(s)>>, <<>>) : s \in Base64Strings}

\* code points around the edges of the UTF-8 lengths, of the surrogates and
\* of the Unicode range
Spread == 2
Utf8Edges == {0, 128, 2048, 55296, 57344, 65536, 1114112, 2097152}
Utf8Samples ==
  {c \in UNION {(e - Spread)..(e + Spread) : e \in Utf8Edges} : c >= 0}

Utf8Scenarios ==
  {Scenario("roundtrip", <<"U">>, <<Fix(c)>>, <<>>) : c \in Utf8Samples}

\* hex: '0', '9', 'a', 'f', 'A' and the letter 'g'
MaxHexLen == 4
HexAlphabet == {48, 57, 97, 102, 65, 103}

HexScenarios ==
  {Scenario("roundtrip", <<"H", "*">>, <<StrValue(s)>>, <<>>) :
     s \in StringsUpTo(HexAlphabet, MaxHexLen)}

\* chains of "Z*": up to MaxChain strings without NUL, each its own "Z*"
MaxChain == 3
MaxZLen == 1
ZStrings == StringsUpTo({97, 255}, MaxZLen) \cup {<<104, 105>>}

RECURSIVE SeqsOfLen(_, _)
SeqsOfLen(S, n) ==
  IF n = 0 THEN {<<>>} ELSE {Append(q, x) : q \in SeqsOfLen(S, n - 1), x \in S}

RECURSIVE Repeated(_, _)
Repeated(tm, n) == IF n = 0 THEN <<>> ELSE tm \o Repeated(tm, n - 1)

ZChainScenarios ==
  {Scenario("roundtrip", Repeated(<<"Z", "*">>, Len(a)), a, <<>>) :
     a \in UNION {SeqsOfLen({StrValue(s) : s \in ZStrings}, n) : n \in 1..MaxChain}}

\* L with an explicit byte order
LOrderScenarios ==
  {Scenario("roundtrip", <<"L", m>>, <<FixnumValue(v)>>, <<>>) :
     m \in {"<", ">"}, v \in IntSamples}

\* pack of U on values that are no code points: 65.0 and -1.0, the code
\* point after the last one U encodes, -1, and 65 + 2^32 and 65 - 2^32, which
\* differ from 65 above bit 31 only
Utf8Invalid ==
  {FloatValue(<<64, 80, 64, 0, 0, 0, 0, 0>>), FloatValue(<<191, 240, 0, 0, 0, 0, 0, 0>>),
   Fix(2097152), Fix(-1),
   FixnumValue(<<65, 0, 0, 0, 1, 0, 0, 0, 0>>),
   FixnumValue(<<65, 0, 0, 0, 255, 255, 255, 255, 255>>)}

\* byte order: the integer directives with "<" and ">", I and i, and the
\* float directives, on values of distinct bytes
OrderInts ==
  {ZeroExt(Pattern(w, 1)) : w \in {1, 2, 4}} \cup {SignExt(Pattern(w, 1)) : w \in {2, 4, 8}}

OrderIntTemplates ==
  {<<"I">>, <<"i">>}
    \cup {<<ch, m>> : ch \in {"S", "s", "L", "l", "Q", "q", "I", "i"}, m \in {"<", ">"}}

OrderFloatTemplates == {<<ch>> : ch \in {"D", "d", "E", "e", "F", "f", "G", "g"}}

OrderScenarios ==
  {Scenario("roundtrip", tm, <<FixnumValue(v)>>, <<>>) :
     tm \in OrderIntTemplates, v \in OrderInts}
    \cup {Scenario("roundtrip", tm, <<v>>, <<>>) :
            tm \in OrderFloatTemplates, v \in {Fix(258), Fix(-2)}}

Utf8PackScenarios == {Scenario("pack", <<"U">>, <<v>>, <<>>) : v \in Utf8Invalid}

InitRT ==
  \/ \E sc \in IntScenarios \cup LOrderScenarios \cup OrderScenarios, c \in Configs :
       Begin(sc, c[1], c[2])
  \/ \E sc \in Base64Scenarios \cup Utf8Scenarios \cup HexScenarios, le \in BOOLEAN :
       Begin(sc, le, TRUE)
  \/ \E sc \in ZChainScenarios : Begin(sc, TRUE, TRUE)
  \/ \E sc \in Utf8PackScenarios, c \in Configs : Begin(sc, c[1], c[2])

SpecRT == InitRT /\ [][NextRT]_vars

\* SpecPack: pack of a numeric directive with a count, alone or followed by
\* another directive, on no value, on one and on five
PackPosts == {<<>>, <<"C">>, <<"x">>}

PackArrays == {<<>>, <<Fix(65)>>, <<Fix(-2), Fix(258), Fix(66), Fix(3), Fix(4)>>}

PackNumScenarios ==
  {Scenario("pack", <<ch>> \o sfx \o post, a, <<>>) :
     ch \in NumDirChars, sfx \in CountSuffixes, post \in PackPosts, a \in PackArrays}

\* pack of a string directive or U with a count, alone or followed by x or
\* "a2", on no value and on the string "ab"
PackStrPosts == {<<>>, <<"x">>, <<"a", "2">>}

PackStrScenarios ==
  {Scenario("pack", <<ch>> \o sfx \o post, a, <<>>) :
     ch \in StrDirChars \cup {"U"}, sfx \in CountSuffixes, post \in PackStrPosts,
     a \in {<<>>, <<StrValue(<<97, 98>>)>>}}

InitPack ==
  \E sc \in PackNumScenarios \cup PackStrScenarios, c \in Configs : Begin(sc, c[1], c[2])

SpecPack == InitPack /\ [][NextPack]_vars

\* SpecInit: unpack of base64 text in the first interpreter state while further
\* states are opened.  The receivers are "QQ==", "YWJj", "MDEy", "Ky8=" and
\* "YQ==\n", with and without a byte to skip first.
Base64Texts ==
  {<<81, 81, 61, 61>>, <<89, 87, 74, 106>>, <<77, 68, 69, 121>>, <<75, 121, 56, 61>>,
   <<89, 81, 61, 61, 10>>}

InitScenarios ==
  {Scenario("unpack", <<"m">>, <<>>, s) : s \in Base64Texts}
    \cup {Scenario("unpack", <<"x", "m">>, <<>>, <<0>> \o s) : s \in Base64Texts}

InitInit == \E sc \in InitScenarios, le \in BOOLEAN : Begin(sc, le, TRUE)

SpecInit == InitInit /\ [][NextInit]_vars

---------------------------------------------------------------------------
(* The exception helpers of mruby-error: _protect, _ensure and              *)
(* _rescue_exceptions.  mrb.jmp names the jump target in force: "c_jmp" is  *)
(* the helper's own buffer, "outer" the one of its caller, "NULL" none.     *)
(* mrb.exc is the class of the pending exception, "NULL" when none.         *)

\* the exception classes and their superclasses
ExcClasses == {"Exception", "StandardError", "ScriptError", "ArgumentError", "RuntimeError"}

Superclass(c) ==
  CASE c \in {"StandardError", "ScriptError"} -> "Exception"
    [] c \in {"ArgumentError", "RuntimeError"} -> "StandardError"
    [] OTHER -> "NULL"

\* _obj_is_kind_of: the class c of the object is k or has k above it
RECURSIVE obj_is_kind_of(_, _)
obj_is_kind_of(c, k) ==
  IF c = "NULL" THEN FALSE
  ELSE IF c = k THEN TRUE
  ELSE obj_is_kind_of(Superclass(c), k)

\* MRB_THROW(jmp): where the helper's call ends up.  Its own buffer leads to
\* its MRB_CATCH block, the caller's buffer out of the helper, and a jump
\* through no buffer ends the process.
Throw(jmp) ==
  CASE jmp = "c_jmp" -> "catch"
    [] jmp = "outer" -> "thrown"
    [] OTHER -> "crashed"

\* _protect's MRB_CATCH block on the interpreter state: the jump target is
\* put back and the pending exception is taken
protect_catch(m, prev_jmp) == [m EXCEPT !.jmp = prev_jmp, !.exc = "NULL"]

\* the loop of _rescue_exceptions that looks only at classes[0]
error_matched_first(exc, classes) ==
  Len(classes) >= 1 /\ obj_is_kind_of(exc, classes[1])

\* _rescue_exceptions: for (i = 0; i < len; ++i) with the test of the
\* pending exception against classes[i]
error_matched(exc, classes) ==
  \E i \in 1..Len(classes) : obj_is_kind_of(exc, classes[i])

\* what a body does: it returns a value, or raises an exception of a class
Bodies == {"return"} \cup (ExcClasses \ {"Exception"})

\* what a callback does: it returns, it raises a RuntimeError, or it returns
\* after a _protect of its own has caught an exception
Callbacks == {"return", "raise", "protect"}

\* the class lists handed to _rescue_exceptions
ClassLists ==
  {<<>>, <<"StandardError">>, <<"ArgumentError">>, <<"ScriptError", "StandardError">>,
   <<"Exception">>}

\* the jump targets in force when a helper is called
EntryJmps == {"outer", "NULL"}

\* the call of the helper fn: its arguments, and its locals before they are
\* set.  state is what *state holds, "none" when the pointer is NULL.
ExcFrame(fn, body, cb, classes, state, jmp) ==
  [fn |-> fn, at |-> "entry", body |-> body, cb |-> cb, classes |-> classes,
   state |-> state, entry_jmp |-> jmp, prev_jmp |-> "unset", result |-> "unset",
   error_matched |-> FALSE]

ExcFrames ==
  {ExcFrame("protect", b, "return", <<>>, st, j) :
     b \in Bodies, st \in {"none", "TRUE", "FALSE"}, j \in EntryJmps}
    \cup {ExcFrame("ensure", b, cb, <<>>, "none", j) :
            b \in Bodies, cb \in Callbacks, j \in EntryJmps}
    \cup {ExcFrame("rescue_exceptions", b, cb, cl, "none", j) :
            b \in Bodies, cb \in Callbacks, cl \in ClassLists, j \in EntryJmps}

\* the helper is left: it has returned, thrown to its caller's target, or
\* the process has ended
ExcLeft == frame.at \in {"returned", "thrown", "crashed"}

\* struct _jmpbuf *prev_jmp = mrb->jmp and the initial values of the locals
ExcEnter ==
  /\ frame.at = "entry"
  /\ frame' = [frame EXCEPT
                 !.prev_jmp = mrb.jmp,
                 !.result = IF frame.fn = "protect" THEN "nil" ELSE @,
                 !.state = IF frame.fn = "protect" /\ @ # "none" THEN "FALSE" ELSE @,
                 !.error_matched = FALSE,
                 !.at = "try"]
  /\ UNCHANGED <<CallVars, littleendian, dec_tab, inits, gem_pc, gem_i, mrb, calls>>

\* MRB_TRY(&c_jmp) { mrb->jmp = &c_jmp;
ExcTry ==
  /\ frame.at = "try"
  /\ mrb' = [mrb EXCEPT !.jmp = "c_jmp"]
  /\ frame' = [frame EXCEPT !.at = "body"]
  /\ UNCHANGED <<CallVars, littleendian, dec_tab, inits, gem_pc, gem_i, calls>>

\* result = body(mrb, data): the body returns, or raises: the exception is
\* made pending and thrown to the jump target in force
ExcBody ==
  /\ frame.at = "body"
  /\ IF frame.body = "return"
     THEN /\ frame' = [frame EXCEPT !.result = "body_value", !.at = "restore"]
          /\ mrb' = mrb
     ELSE /\ mrb' = [mrb EXCEPT !.exc = frame.body]
          /\ frame' = [frame EXCEPT !.at = Throw(mrb.jmp)]
  /\ UNCHANGED <<CallVars, littleendian, dec_tab, inits, gem_pc, gem_i, calls>>

\* mrb->jmp = prev_jmp at the end of the MRB_TRY block
ExcRestore ==
  /\ frame.at = "restore"
  /\ mrb' = [mrb EXCEPT !.jmp = frame.prev_jmp]
  /\ frame' = [frame EXCEPT !.at = IF frame.fn = "ensure" THEN "ensure" ELSE "return"]
  /\ UNCHANGED <<CallVars, littleendian, dec_tab, inits, gem_pc, gem_i, calls>>

\* the MRB_CATCH block up to the callback or the throw
ExcCatch ==
  /\ frame.at = "catch"
  /\ CASE frame.fn = "protect" ->
            /\ mrb' = protect_catch(mrb, frame.prev_jmp)
            /\ frame' = [frame EXCEPT !.result = mrb.exc,
                                      !.state = IF @ # "none" THEN "TRUE" ELSE @,
                                      !.at = "return"]
       [] frame.fn = "ensure" ->
            /\ mrb' = [mrb EXCEPT !.jmp = frame.prev_jmp]
            /\ frame' = [frame EXCEPT !.at = "ensure_exc"]
       [] OTHER ->
            LET matched == error_matched(mrb.exc, frame.classes)
            IN IF matched
               THEN /\ mrb' = [mrb EXCEPT !.jmp = frame.prev_jmp, !.exc = "NULL"]
                    /\ frame' = [frame EXCEPT !.error_matched = TRUE, !.at = "rescue"]
               ELSE /\ mrb' = [mrb EXCEPT !.jmp = frame.prev_jmp]
                    /\ frame' = [frame EXCEPT !.at = Throw(frame.prev_jmp)]
  /\ UNCHANGED <<CallVars, littleendian, dec_tab, inits, gem_pc, gem_i, calls>>

\* where the helper goes on when its callback has returned
AfterCallback(f) ==
  CASE f.at = "ensure" -> [f EXCEPT !.at = "return"]
    [] f.at = "ensure_exc" -> [f EXCEPT !.at = "rethrow"]
    [] OTHER -> [f EXCEPT !.result = "rescue_value", !.at = "return"]

\* ensure(mrb, e_data) and result = rescue(mrb, r_data): the callback is
\* called with the interpreter state as it is.  A callback that raises makes
\* its exception pending and throws to the jump target in force; one whose
\* own _protect caught an exception returns with that _protect's effect on
\* the interpreter state.
ExcCallback ==
  /\ frame.at \in {"ensure", "ensure_exc", "rescue"}
  /\ calls' = Append(calls, [at |-> frame.at, jmp |-> mrb.jmp, exc |-> mrb.exc])
  /\ CASE frame.cb = "return" ->
            /\ mrb' = mrb
            /\ frame' = AfterCallback(frame)
       [] frame.cb = "raise" ->
            /\ mrb' = [mrb EXCEPT !.exc = "RuntimeError"]
            /\ frame' = [frame EXCEPT !.at = Throw(mrb.jmp)]
       [] OTHER ->
            /\ mrb' = protect_catch(mrb, mrb.jmp)
            /\ frame' = AfterCallback(frame)
  /\ UNCHANGED <<CallVars, littleendian, dec_tab, inits, gem_pc, gem_i>>

\* _ensure: MRB_THROW(mrb->jmp) after the callback
ExcRethrow ==
  /\ frame.at = "rethrow"
  /\ frame' = [frame EXCEPT !.at = Throw(mrb.jmp)]
  /\ UNCHANGED <<CallVars, littleendian, dec_tab, inits, gem_pc, gem_i, mrb, calls>>

\* _gc_protect(mrb, result); return result
ExcReturn ==
  /\ frame.at = "return"
  /\ frame' = [frame EXCEPT !.at = "returned"]
  /\ UNCHANGED <<CallVars, littleendian, dec_tab, inits, gem_pc, gem_i, mrb, calls>>

NextExc ==
  \/ ExcEnter \/ ExcTry \/ ExcBody \/ ExcRestore \/ ExcCatch \/ ExcCallback
  \/ ExcRethrow \/ ExcReturn

\* SpecExc: one call of a helper, with no exception pending, while no pack
\* or unpack call is running
InitExc ==
  \E f \in ExcFrames :
    LET s == Start(Scenario("pack", <<>>, <<>>, <<>>), TRUE, TRUE)
    IN /\ littleendian = s.littleendian /\ int64 = s.int64 /\ op = s.op /\ pc = s.pc
       /\ tmpl = s.tmpl /\ tidx = s.tidx /\ dir = s.dir /\ type = s.type
       /\ size = s.size /\ count = s.count /\ flags = s.flags /\ ary = s.ary
       /\ aidx = s.aidx /\ result = s.result /\ ridx = s.ridx /\ cap = s.cap
       /\ src = s.src /\ srcidx = s.srcidx /\ out = s.out /\ ret = s.ret
       /\ err = s.err /\ dec_tab = s.dec_tab
       /\ inits = 1 /\ gem_pc = "ready" /\ gem_i = 0
       /\ mrb = [jmp |-> f.entry_jmp, exc |-> "NULL"] /\ frame = f /\ calls = <<>>

SpecExc == InitExc /\ [][NextExc]_vars

---------------------------------------------------------------------------
(* What the calls are to do, in terms of the template and the receiver      *)

\* the call has returned or raised, or the process has ended
Finished == pc \in {"done", "raised", "crashed"}

\* the width in bytes of an integer directive character, and its signedness
IntWidth(ch) ==
  CASE ch \in {"C", "c"} -> 1
    [] ch \in {"S", "s", "n", "v"} -> 2
    [] ch \in {"L", "l", "N", "V"} -> 4
    [] ch \in {"Q", "q"} -> 8

IntSigned(ch) == ch \in {"c", "s", "l", "q"}

\* the 9-byte integer v lies in the range of the directive character:
\* 0 .. 2^w - 1 when unsigned, -2^(w-1) .. 2^(w-1) - 1 when signed
InRangeOf(ch, v) ==
  LET low == SubSeq(v, 1, IntWidth(ch))
  IN IF IntSigned(ch) THEN SignExt(low) = v ELSE ZeroExt(low) = v

\* the call is [v].pack(X) followed by unpack(X) of the packed string, for
\* an integer directive X and an integer v of its range
IntRoundTrip ==
  /\ op \in {"roundtrip", "unpack_packed"}
  /\ Len(tmpl) = 1 /\ tmpl[1] \in IntDirChars
  /\ InRangeOf(tmpl[1], ary[1].b)

\* the pack has not raised, and the unpack of its result returned the array
RoundTripped ==
  /\ pc \notin {"raised", "crashed"}
  /\ (op = "unpack_packed" /\ pc = "done") => ret = ary

\* C1 as stated: for every integer directive X of C c S s n v L l N V Q q
\* and every Integer v in X's range, [v].pack(X).unpack(X) is [v].
C1_AnyInRange == IntRoundTrip => RoundTripped

\* C1: for every integer directive X of C c S s n v L l N V Q q and every
\* Integer v in X's range that is also a native integer of the build
\* (MRB_INT_MIN .. MRB_INT_MAX), [v].pack(X).unpack(X) is [v].
C1_RoundTrip == (IntRoundTrip /\ Fixable(ary[1].b, int64)) => RoundTripped

\* a Q round trip of 2^63 - 1 has returned, on a little-endian 64-bit build
C1_Witness ==
  /\ IntRoundTrip /\ op = "unpack_packed" /\ pc = "done"
  /\ tmpl = <<"Q">> /\ ary = <<FixnumValue(TwoToLess1(63))>>
  /\ ret = ary /\ littleendian /\ int64


\* the size in bytes of one element of a numeric directive character
NumWidth(ch) ==
  CASE ch \in {"C", "c"} -> 1
    [] ch \in {"S", "s", "n", "v"} -> 2
    [] ch \in {"L", "l", "N", "V", "I", "i", "F", "f", "e", "g"} -> 4
    [] ch \in {"Q", "q", "D", "d", "E", "G"} -> 8

\* the count a suffix of digits or "*" stands for: 1 when absent, -1 for "*"
RECURSIVE DigitsValue(_)
DigitsValue(ds) ==
  IF ds = <<>> THEN 0
  ELSE 10 * DigitsValue(SubSeq(ds, 1, Len(ds) - 1)) + DigitVal(ds[Len(ds)])

SuffixCount(sfx) ==
  IF sfx = <<>> THEN 1 ELSE IF sfx = <<"*">> THEN -1 ELSE DigitsValue(sfx)

\* unpack with one numeric directive and a count, after an optional "x":
\* where the directive starts in the receiver, its character, its count N,
\* and the number k of whole elements the receiver holds from there on
NumStart == IF tmpl[1] = "x" THEN 1 ELSE 0
NumChar == tmpl[NumStart + 1]
NumCount == SuffixCount(SubSeq(tmpl, NumStart + 2, Len(tmpl)))
NumHeld == (Len(src) - NumStart) \div NumWidth(NumChar)

NumUnpack ==
  /\ op = "unpack" /\ Len(tmpl) > NumStart /\ NumChar \in NumDirChars
  /\ NumStart <= Len(src)

\* element i of the receiver, unpacked on its own
Single(i) ==
  Outcome(Start(Scenario("unpack", <<NumChar>>, <<>>,
                         Slice(src, NumStart + (i - 1) * NumWidth(NumChar),
                               NumWidth(NumChar))),
                littleendian, int64))

\* the directive returned k decoded values and n nils, and left the cursor
\* after the k elements
Yielded(k, n) ==
  /\ pc = "done" /\ err = ""
  /\ Len(ret) = k + n
  /\ \A i \in 1..k : ret[i] # NilValue /\ <<ret[i]>> = Single(i).ret
  /\ \A i \in (k + 1)..(k + n) : ret[i] = NilValue
  /\ srcidx = NumStart + k * NumWidth(NumChar)

\* C2 as stated: a numeric directive with count N on a receiver that holds
\* k < N whole elements appends the k values and N - k nils, raises no
\* error and advances the cursor by k * width; with "*" it appends the k
\* values and no nil.
C2_NoError ==
  (NumUnpack /\ Finished) =>
    /\ (NumCount >= 0 /\ NumHeld < NumCount) => Yielded(NumHeld, NumCount - NumHeld)
    /\ NumCount = -1 => Yielded(NumHeld, 0)

\* one of the first k elements is outside the native integer range
SomeOutOfRange(k) == \E i \in 1..k : Single(i).pc = "raised"

\* C2: a numeric directive with count N on a receiver that holds k < N whole
\* elements appends the k values and N - k nils and advances the cursor by
\* k * width, and with "*" appends the k values and no nil; the missing
\* bytes raise no error, and the only error is the RangeError of an element
\* outside the native integer range.
C2_ShortInput ==
  (NumUnpack /\ Finished) =>
    LET k == NumHeld
        n == IF NumCount = -1 THEN 0 ELSE NumCount - k
    IN (NumCount = -1 \/ k < NumCount) =>
         IF SomeOutOfRange(k) THEN pc = "raised" /\ err = "RangeError"
         ELSE Yielded(k, n)

\* "S3" on a receiver of three bytes has returned one value and two nils
C2_Witness ==
  /\ NumUnpack /\ pc = "done" /\ tmpl = <<"S", "3">> /\ Len(src) = 3
  /\ Len(ret) = 3 /\ ret[1].k = "int" /\ ret[2] = NilValue /\ ret[3] = NilValue
  /\ srcidx = 2


\* the characters of a suffix: the digits, "*" and the modifiers
CountSuffixChars == {DigitChars[i] : i \in 1..10} \cup {"*"}
SuffixChars == CountSuffixChars \cup ModifierChars

\* the last position (1-based) of the group whose character is at tm[i]:
\* the character and the longest run of suffix characters after it
RECURSIVE GroupEnd(_, _)
GroupEnd(tm, i) ==
  IF i < Len(tm) /\ tm[i + 1] \in SuffixChars THEN GroupEnd(tm, i + 1) ELSE i

\* the positions at which the groups of a template start, from position i on
RECURSIVE GroupStarts(_, _)
GroupStarts(tm, i) ==
  IF i > Len(tm) THEN {} ELSE {i} \cup GroupStarts(tm, GroupEnd(tm, i) + 1)

GroupSuffix(tm, i) == SubSeq(tm, i + 1, GroupEnd(tm, i))

\* the template without the group that starts at i
WithoutGroup(tm, i) == SubSeq(tm, 1, i - 1) \o SubSeq(tm, GroupEnd(tm, i) + 1, Len(tm))

\* the call of the current receiver with the template tm, as a whole
CallWith(o, tm) ==
  Outcome(Start(Scenario(o, tm, ary, src), littleendian, int64))

\* the finished call stands as the call with template tm does: the same
\* return value or exception, output, values and cursors
SameAs(tm) ==
  LET o == CallWith(op, tm)
  IN /\ err = o.err /\ result = o.result /\ out = o.out
     /\ aidx = o.aidx /\ ridx = o.ridx /\ srcidx = o.srcidx
     /\ op # "unpack1" => (pc = o.pc /\ ret = o.ret)

\* the groups of the template whose character is no directive
UnknownGroups == {i \in GroupStarts(tmpl, 1) : tmpl[i] \notin DirChars}

\* C3 as stated: a character that is no directive, with any suffix of
\* digits, "*" or modifiers, is a silent no-op in pack and unpack: the call
\* ends as it does for the template without that group.
C3_AnySuffix ==
  (Finished /\ op \in {"pack", "unpack", "unpack1"}) =>
    \A i \in UnknownGroups : SameAs(WithoutGroup(tmpl, i))

\* C3: a character that is no directive, with a suffix of digits or "*", is
\* a silent no-op in pack and unpack: no error, no output, no value or
\* input consumed, and the call ends as it does for the template without
\* that group.
C3_CountSuffix ==
  (Finished /\ op \in {"pack", "unpack", "unpack1"}) =>
    \A i \in UnknownGroups :
      (\A j \in 1..Len(GroupSuffix(tmpl, i)) : GroupSuffix(tmpl, i)[j] \in CountSuffixChars)
        => SameAs(WithoutGroup(tmpl, i))

\* pack with "C", "y2", "a2" has returned the bytes of "C" and "a2"
C3_Witness ==
  /\ op = "pack" /\ pc = "done" /\ tmpl = <<"C", "y", "2", "a", "2">>
  /\ ret = <<StrValue(<<65, 52, 49>>)>>

\* the call is unpack1, and its template is empty or starts with a directive
Unpack1Call == op = "unpack1" /\ (tmpl = <<>> \/ tmpl[1] \in DirChars)

\* the first group of the template alone
FirstGroup == IF tmpl = <<>> THEN <<>> ELSE SubSeq(tmpl, 1, GroupEnd(tmpl, 1))

\* C7: unpack1 stops after the first directive: no later directive is
\* processed or raises, and the call returns the first value of the first
\* directive, or nil when it produced none or the template is empty.
C7_FirstDirectiveOnly ==
  (Unpack1Call /\ Finished) =>
    LET f == CallWith("unpack", FirstGroup)
    IN IF f.pc = "raised" THEN pc = "raised" /\ err = f.err
       ELSE pc = "done" /\ ret = <<IF f.ret = <<>> THEN NilValue ELSE f.ret[1]>>

\* the group read next has a modifier in its suffix
ModifierNext ==
  /\ pc \in {"pack_tmpl", "unpack_tmpl"} /\ has_tmpl(tmpl, tidx)
  /\ \E j \in 1..Len(GroupSuffix(tmpl, tidx + 1)) :
       GroupSuffix(tmpl, tidx + 1)[j] \in ModifierChars

\* C8: a modifier _ ! < > is accepted only after s S i I l L q Q; after any
\* other character the call raises ArgumentError and returns nothing.
C8_ModifierRejected ==
  [][ModifierNext =>
       IF tmpl[tidx + 1] \in {"s", "S", "i", "I", "l", "L", "q", "Q"}
       THEN err' # "ArgumentError"
       ELSE pc' = "raised" /\ err' = "ArgumentError" /\ ret' = <<>>]_vars


\* the call is [s].pack("m") followed by unpack("m") of the packed string
Base64RoundTrip ==
  /\ op \in {"roundtrip", "unpack_packed"} /\ tmpl = <<"m">>
  /\ Len(ary) = 1 /\ ary[1].k = "str"

\* C4: for every byte string s, the empty string and the strings of a
\* multiple of 45 bytes included, [s].pack("m").unpack("m") is [s].
C4_Base64RoundTrip == Base64RoundTrip => RoundTripped

\* the round trip of a string of two whole lines has returned it
C4_Witness ==
  /\ Base64RoundTrip /\ op = "unpack_packed" /\ pc = "done"
  /\ Len(ary[1].b) = 90 /\ ret = ary /\ Len(src) = 123

\* the call is [c].pack("U") followed by unpack("U") of the packed string,
\* for a code point c up to 0x10FFFF that is no surrogate
Utf8RoundTrip ==
  /\ op \in {"roundtrip", "unpack_packed"} /\ tmpl = <<"U">>
  /\ Len(ary) = 1 /\ ary[1].k = "int" /\ ary[1].b[4] < 128
  /\ SmallInt(ary[1].b) <= 1114111
  /\ SmallInt(ary[1].b) \notin 55296..57343

\* the length of the minimal UTF-8 sequence of a code point
Utf8Len(c) == IF c < 128 THEN 1 ELSE IF c < 2048 THEN 2 ELSE IF c < 65536 THEN 3 ELSE 4

\* C5: for every code point c up to 0x10FFFF outside the surrogates,
\* [c].pack("U") is the minimal sequence of 1, 2, 3 or 4 bytes for c < 0x80,
\* < 0x800, < 0x10000 and above, and its unpack("U") is [c], with the
\* cursor advanced by that length.
C5_Utf8RoundTrip ==
  Utf8RoundTrip =>
    LET n == Utf8Len(SmallInt(ary[1].b))
    IN /\ RoundTripped
       /\ (op = "roundtrip" /\ pc = "done") => Len(ret[1].b) = n
       /\ (op = "unpack_packed" /\ pc = "done") => (Len(src) = n /\ srcidx = n)

\* the round trip of U+10000 has returned it from four bytes
C5_Witness ==
  /\ Utf8RoundTrip /\ op = "unpack_packed" /\ pc = "done"
  /\ ary = <<Fix(65536)>> /\ ret = ary /\ src = <<240, 144, 128, 128>> /\ srcidx = 4

\* the hexadecimal digits, and the lower-case form of a letter A-F
HexDigits == (48..57) \cup (97..102) \cup (65..70)
LowerHex(s) == [i \in 1..Len(s) |-> IF s[i] \in 65..70 THEN s[i] + 32 ELSE s[i]]

\* the call is [s].pack("H*") followed by unpack("H*") of the packed
\* string, for a string s of an even number of hexadecimal digits
HexRoundTrip ==
  /\ op \in {"roundtrip", "unpack_packed"} /\ tmpl = <<"H", "*">>
  /\ Len(ary) = 1 /\ ary[1].k = "str" /\ Len(ary[1].b) % 2 = 0
  /\ \A i \in 1..Len(ary[1].b) : ary[1].b[i] \in HexDigits

\* C6 as stated: for every string s of an even number of characters of
\* 0-9, a-f, A-F, [s].pack("H*").unpack("H*") is [s].
C6_AnyCase == HexRoundTrip => RoundTripped

\* C6: for every string s of an even number of characters of 0-9, a-f, A-F,
\* [s].pack("H*").unpack("H*") is [s] with its letters A-F in lower case,
\* and so [s] when s has none.
C6_LowerCase ==
  HexRoundTrip =>
    /\ pc \notin {"raised", "crashed"}
    /\ (op = "unpack_packed" /\ pc = "done") => ret = <<StrValue(LowerHex(ary[1].b))>>

\* the round trip of "Af09" has returned "af09"
C6_Witness ==
  /\ HexRoundTrip /\ op = "unpack_packed" /\ pc = "done"
  /\ ary = <<StrValue(<<65, 102, 48, 57>>)>> /\ ret = <<StrValue(<<97, 102, 48, 57>>)>>


\* the count of the one directive of the template
StrCount == SuffixCount(SubSeq(tmpl, 2, Len(tmpl)))

\* the call is pack with one directive A, a or Z on a string
StrPack ==
  /\ op = "pack" /\ tmpl # <<>> /\ tmpl[1] \in {"A", "a", "Z"}
  /\ ary # <<>> /\ ary[1].k = "str"

\* the bytes A, a or Z with count c is to emit for the string s
PackStrExpected(ch, s, c) ==
  IF c = 0 THEN <<>>
  ELSE IF c = -1 THEN s \o (IF ch = "Z" THEN <<0>> ELSE <<>>)
  ELSE IF Len(s) > c THEN SubSeq(s, 1, c)
  ELSE s \o Rep(c - Len(s), IF ch = "A" THEN 32 ELSE 0)

\* C9: pack of A, a, Z on a string s with count c emits nothing for c = 0,
\* all of s for "*" (and one NUL after it for Z), and for a number N the
\* first N bytes of s when s is longer, else s padded to N bytes with
\* spaces for A and NULs for a and Z.
C9_PackString ==
  (StrPack /\ Finished) =>
    /\ pc = "done"
    /\ ret = <<StrValue(PackStrExpected(tmpl[1], ary[1].b, StrCount))>>

\* pack of ["ab", ..] with "A5" has returned "ab" and three spaces
C9_Witness ==
  /\ StrPack /\ pc = "done" /\ tmpl = <<"A", "5">> /\ ary[1] = StrValue(<<97, 98>>)
  /\ ret = <<StrValue(<<97, 98, 32, 32, 32>>)>>

\* the call is unpack with one directive A or a, after an optional "x":
\* where the directive starts in the receiver, and its count
StrStart == IF tmpl # <<>> /\ tmpl[1] = "x" THEN 1 ELSE 0
StrUnpackCount == SuffixCount(SubSeq(tmpl, StrStart + 2, Len(tmpl)))

StrUnpack ==
  /\ op = "unpack" /\ Len(tmpl) > StrStart /\ tmpl[StrStart + 1] \in {"A", "a"}
  /\ StrStart <= Len(src)

\* the whitespace bytes and NUL
BlankBytes == {0, 9, 10, 11, 12, 13, 32}

\* t without its trailing whitespace and NUL bytes
Stripped(t) ==
  LET kept == {i \in 1..Len(t) : t[i] \notin BlankBytes}
  IN SubSeq(t, 1, IF kept = {} THEN 0 ELSE CHOOSE i \in kept : \A j \in kept : j <= i)

\* C10: unpack of A and a with count c takes L = min(c, remaining) bytes,
\* all that remain for "*", and advances the cursor by L; a returns the L
\* bytes unchanged, A returns them without trailing whitespace and NULs.
C10_UnpackString ==
  (StrUnpack /\ Finished) =>
    LET remaining == Len(src) - StrStart
        len == IF StrUnpackCount = -1 THEN remaining ELSE Min(StrUnpackCount, remaining)
        taken == Slice(src, StrStart, len)
    IN /\ pc = "done" /\ srcidx = StrStart + len
       /\ ret = <<StrValue(IF tmpl[StrStart + 1] = "a" THEN taken ELSE Stripped(taken))>>

\* unpack of NUL, "a", space with "xA5" has returned "a" and taken the two
\* bytes that remained
C10_Witness ==
  /\ StrUnpack /\ pc = "done" /\ tmpl = <<"x", "A", "5">> /\ src = <<0, 97, 32>>
  /\ ret = <<StrValue(<<97>>)>> /\ srcidx = 3


\* the call is pack of strings without NUL with one "Z*" for each, followed
\* by unpack of the packed string with the same template
ZChain ==
  /\ op \in {"roundtrip", "unpack_packed"}
  /\ ary # <<>> /\ tmpl = Repeated(<<"Z", "*">>, Len(ary))
  /\ \A i \in 1..Len(ary) : ary[i].k = "str" /\ \A j \in 1..Len(ary[i].b) : ary[i].b[j] # 0

\* the first n strings, each followed by one NUL
RECURSIVE Terminated(_)
Terminated(n) == IF n = 0 THEN <<>> ELSE Terminated(n - 1) \o ary[n].b \o <<0>>

\* C11: for strings s1..sn without NUL, pack with n times "Z*" is each
\* string followed by one NUL, and unpack of it with n times "Z*" is
\* [s1..sn]: each "Z*" returns the bytes before the first NUL and moves the
\* cursor past that NUL, never past the end of the string.
C11_ZChain ==
  ZChain =>
    /\ RoundTripped
    /\ (op = "roundtrip" /\ pc = "done") => ret = <<StrValue(Terminated(Len(ary)))>>
    /\ (op = "unpack_packed" /\ pc = "unpack_tmpl") =>
         /\ out = SubSeq(ary, 1, tidx \div 2)
         /\ srcidx = Len(Terminated(tidx \div 2))
         /\ srcidx <= Len(src)

\* the chain of "hi", "" and "a" has been unpacked from "hi\0\0a\0"
C11_Witness ==
  /\ ZChain /\ op = "unpack_packed" /\ pc = "done"
  /\ ary = <<StrValue(<<104, 105>>), StrValue(<<>>), StrValue(<<97>>)>>
  /\ src = <<104, 105, 0, 0, 97, 0>> /\ ret = ary /\ srcidx = 6


\* the group unpack reads next is x with an explicit count: the count
NextIsX ==
  /\ op \in {"unpack", "unpack1"} /\ pc = "unpack_tmpl" /\ has_tmpl(tmpl, tidx)
  /\ tmpl[tidx + 1] = "x"
  /\ GroupSuffix(tmpl, tidx + 1) # <<>>
  /\ \A j \in 1..Len(GroupSuffix(tmpl, tidx + 1)) : isdigit(GroupSuffix(tmpl, tidx + 1)[j])

XCount == DigitsValue(GroupSuffix(tmpl, tidx + 1))

\* C12: unpack of x with an explicit count N moves the cursor by N and
\* appends no value when at least N bytes remain, and raises ArgumentError
\* and returns nothing when fewer remain.
C12_UnpackX ==
  [][NextIsX =>
       IF Len(src) - srcidx >= XCount
       THEN srcidx' = srcidx + XCount /\ out' = out /\ err' = "" /\ pc' # "raised"
       ELSE pc' = "raised" /\ err' = "ArgumentError" /\ ret' = <<>> /\ out' = out]_vars

\* unpack of five bytes with "x2" has returned no value, the cursor at 2
C12_Witness ==
  /\ op = "unpack" /\ pc = "done" /\ tmpl = <<"x", "2">> /\ Len(src) = 5
  /\ srcidx = 2 /\ ret = <<>>


\* the sequence length a leading byte declares
DeclaredLen(b) ==
  CASE b \in 192..223 -> 2
    [] b \in 224..239 -> 3
    [] b \in 240..247 -> 4
    [] b \in 248..251 -> 5
    [] b \in 252..253 -> 6
    [] OTHER -> 1

\* unpack is about to decode U at a leading byte that declares more bytes
\* than remain
TruncatedU ==
  /\ op = "unpack" /\ pc = "unpack_loop" /\ dir = "UTF8" /\ count # 0
  /\ Len(src) - srcidx >= 1
  /\ DeclaredLen(src[srcidx + 1]) > Len(src) - srcidx

\* C13: unpack with U of a sequence whose leading byte declares n bytes
\* while fewer than n remain raises ArgumentError and appends no value.
C13_TruncatedU ==
  [][TruncatedU =>
       pc' = "raised" /\ err' = "ArgumentError" /\ out' = out /\ ret' = <<>>]_vars

\* unpack of "A", 0xE2, 0x82 with "U*" has raised after the value of "A"
C13_Witness ==
  /\ op = "unpack" /\ pc = "raised" /\ err = "ArgumentError"
  /\ tmpl = <<"U", "*">> /\ src = <<65, 226, 130>> /\ out = <<Fix(65)>> /\ srcidx = 1


\* pack of one Integer of the build with "L>" has returned
PackedLBig ==
  /\ op = "roundtrip" /\ pc = "done" /\ tmpl = <<"L", ">">>
  /\ Len(ary) = 1 /\ Fixable(ary[1].b, int64)

\* C14: for every Integer v, the 4 bytes of pack([v], "L>") are the 4 bytes
\* of pack([v], "L<") in reverse, whatever the host byte order; "L<" puts
\* the least significant byte of v first.
C14_Reverse ==
  PackedLBig =>
    LET little == CallWith("pack", <<"L", "<">>)
    IN /\ little.pc = "done"
       /\ little.ret = <<StrValue(SubSeq(ary[1].b, 1, 4))>>
       /\ Len(ret[1].b) = 4
       /\ ret[1].b = Reverse(little.ret[1].b)

\* pack of 0xA8835E39 with "L>" has returned A8 83 5E 39 on a little-endian
\* host
C14_Witness ==
  /\ PackedLBig /\ littleendian /\ ary = <<FixnumValue(ZeroExt(Pattern(4, 1)))>>
  /\ ret = <<StrValue(<<168, 131, 94, 57>>)>>


---------------------------------------------------------------------------
\* the return value the call gives when every read of base64_dec_tab finds
\* the table as make_base64_dec_tab leaves it
WithInitializedTable ==
  Outcome(Start(Scenario(op, tmpl, ary, src), littleendian, int64))

\* C15: the byte-order flag and the base64 decode table are written once,
\* before the first call, and not again when a second interpreter state
\* initializes the gem, so an unpack of "m" that runs while anything else
\* does reads only the initialized table: it returns what it returns with
\* the table make_base64_dec_tab has completed.
C15_InitializedTable ==
  (pc = "done" /\ op = "unpack") => ret = WithInitializedTable.ret


---------------------------------------------------------------------------
\* C16: in pack a directive A, a, Z, H, h or m that finds an input value left
\* takes exactly one value, whatever its count: a call whose template is one
\* such directive returns with the input index at 1.
C16_OneValue ==
  (op = "pack" /\ pc = "done" /\ Len(tmpl) >= 1 /\ tmpl[1] \in StrDirChars
     /\ ary # <<>>) => aidx = 1


---------------------------------------------------------------------------
\* C17: in unpack a directive A, a, Z, H, h or m appends exactly one value,
\* whatever its count: a call whose template is one such directive never
\* holds more than one value, and returns an array of one value.
C17_OneValue ==
  (op = "unpack" /\ Len(tmpl) >= 1 /\ tmpl[1] \in StrDirChars) =>
    /\ Len(out) <= 1
    /\ pc = "done" => Len(ret) = 1


---------------------------------------------------------------------------
\* C18: in pack every byte a codec writes is below the capacity its
\* str_len_ensure call established, so the write cursor never passes the
\* buffer's capacity (pack_m in particular writes no more than the dstlen
\* it reserved).
C18_WithinCapacity == ridx <= cap


---------------------------------------------------------------------------
\* C19: in unpack the read offset stays within the receiver, after U on an
\* exhausted buffer and after the directives that follow it as well:
\* 0 <= srcidx <= srclen.
C19_CursorInRange == 0 <= srcidx /\ srcidx <= Len(src)


---------------------------------------------------------------------------
\* the line length in source bytes the count c of "m" stands for
LineLen(c) == IF c < 3 THEN 45 ELSE c - (c % 3)

Newlines(b) == Cardinality({i \in 1..Len(b) : b[i] = 10})

\* the call is pack with the one directive m on one non-empty string
PackedM ==
  /\ op = "pack" /\ pc = "done" /\ Len(tmpl) >= 1 /\ tmpl[1] = "m"
  /\ Len(ary) = 1 /\ ary[1].k = "str" /\ ary[1].b # <<>>

\* C20: pack of "m" on a non-empty string s wraps after every N source bytes,
\* N being 45 for the counts 0, 1, 2, "*" and none, and the count rounded down
\* to a multiple of 3 from 3 on: the output has ceil(len(s) / N) newlines and
\* ends with exactly one.
C20_LineWrapping ==
  PackedM =>
    LET N == LineLen(StrCount)
        b == ret[1].b
    IN /\ Newlines(b) = (Len(ary[1].b) + N - 1) \div N
       /\ b[Len(b)] = 10
       /\ Len(b) >= 2 => b[Len(b) - 1] # 10


---------------------------------------------------------------------------
\* unpack is about to decode U at a leading byte 0xF8..0xFD whose five or six
\* bytes are all there, the ones after it being continuation bytes
LongU ==
  /\ op = "unpack" /\ pc = "unpack_loop" /\ dir = "UTF8" /\ count # 0
  /\ Len(src) - srcidx >= 1
  /\ DeclaredLen(src[srcidx + 1]) \in {5, 6}
  /\ DeclaredLen(src[srcidx + 1]) <= Len(src) - srcidx
  /\ \A i \in 2..DeclaredLen(src[srcidx + 1]) : src[srcidx + i] \in 128..191

\* the value the n bytes at the cursor stand for: the leading byte's low
\* 7 - n bits, then six bits of every continuation byte
RECURSIVE LongValue(_, _)
LongValue(n, i) ==
  IF i = 1 THEN src[srcidx + 1] - (IF n = 5 THEN 248 ELSE 252)
  ELSE LongValue(n, i - 1) * 64 + (src[srcidx + i] - 128)

\* the least value that needs n bytes
LeastOf(n) == IF n = 5 THEN 2097152 ELSE 67108864

\* C21 as stated: unpack with U of a five or six byte sequence raises
\* ArgumentError even when its continuation bytes are all there.
C21_AlwaysMalformed ==
  [][LongU => pc' = "raised" /\ err' = "ArgumentError"]_vars

\* C21: unpack with U of a well-formed five or six byte sequence appends the
\* value the bytes stand for and moves the cursor past them, unless that
\* value fits a shorter sequence: then it raises ArgumentError and appends
\* nothing.
C21_LongSequence ==
  [][LongU =>
       LET n == DeclaredLen(src[srcidx + 1])
           v == LongValue(n, n)
       IN IF v >= LeastOf(n)
          THEN /\ out' = Append(out, Fix(v)) /\ srcidx' = srcidx + n
               /\ pc' # "raised" /\ err' = ""
          ELSE /\ pc' = "raised" /\ err' = "ArgumentError" /\ out' = out]_vars

\* unpack of F8 88 80 80 80 with "U" has returned [0x200000]
C21_Witness ==
  /\ op = "unpack" /\ pc = "done" /\ tmpl = <<"U">>
  /\ src = <<248, 136, 128, 128, 128>>
  /\ ret = <<Fix(2097152)>>


---------------------------------------------------------------------------
\* v is no code point U encodes: a Float, a negative Integer, or an Integer
\* from 0x200000 on
NoCodePoint(v) ==
  \/ v.k = "flo"
  \/ /\ v.k = "int"
     /\ \/ v.b[9] >= 128
        \/ v.b[3] >= 32
        \/ \E i \in 4..9 : v.b[i] # 0

\* C22: pack with U of a Float, of a negative Integer or of an Integer from
\* 0x200000 on raises RangeError and emits nothing; a Float is never taken
\* as the code point of its integer part.
C22_RangeError ==
  (op = "pack" /\ tmpl = <<"U">> /\ Len(ary) = 1 /\ NoCodePoint(ary[1]) /\ Finished) =>
    /\ pc = "raised" /\ err = "RangeError"
    /\ result = <<>>


---------------------------------------------------------------------------
\* the call is pack whose template starts with a numeric directive and a
\* count
NumPack ==
  /\ op = "pack" /\ Len(tmpl) >= 1 /\ tmpl[1] \in NumDirChars
  /\ \A i \in 1..Len(GroupSuffix(tmpl, 1)) : GroupSuffix(tmpl, 1)[i] \in CountSuffixChars

\* the number of values the first directive is to take
Taken ==
  LET N == SuffixCount(GroupSuffix(tmpl, 1))
  IN IF N = -1 THEN Len(ary) ELSE Min(N, Len(ary))

\* pack of element i of the receiver alone, with the template tm
PackOne(tm, i) ==
  Outcome(Start(Scenario("pack", tm, <<ary[i]>>, <<>>), littleendian, int64))

\* the encodings of the first k elements with the first directive's
\* character, one after the other
RECURSIVE Encoded(_)
Encoded(k) ==
  IF k = 0 THEN <<>> ELSE Encoded(k - 1) \o PackOne(<<tmpl[1]>>, k).ret[1].b

\* what the directive after the first one is to add: x a NUL, C the byte of
\* the first value not taken
AfterFirst ==
  LET rest == SubSeq(tmpl, GroupEnd(tmpl, 1) + 1, Len(tmpl))
  IN IF rest = <<"x">> THEN <<0>>
     ELSE IF rest = <<"C">> /\ Taken < Len(ary) THEN PackOne(<<"C">>, Taken + 1).ret[1].b
     ELSE <<>>

\* C23: pack of a numeric or float directive with count N takes the next
\* min(N, remaining) values in order, all of them with "*" and none with 0;
\* their bytes follow each other in that order, the input index ends at the
\* number of values taken, and the next directive takes the first value
\* that is left.
C23_NumericCount ==
  NumPack =>
    /\ pc \notin {"raised", "crashed"}
    /\ (pc = "pack_tmpl" /\ tidx = GroupEnd(tmpl, 1)) =>
         (aidx = Taken /\ result = Encoded(Taken))
    /\ pc = "done" => ret = <<StrValue(Encoded(Taken) \o AfterFirst)>>

\* pack of [-2, 258, 66, 3, 4] with "S2C" has returned FE FF 02 01 42 on a
\* little-endian host
C23_Witness ==
  /\ op = "pack" /\ pc = "done" /\ littleendian /\ tmpl = <<"S", "2", "C">>
  /\ Len(ary) = 5
  /\ ret = <<StrValue(<<254, 255, 2, 1, 66>>)>>


---------------------------------------------------------------------------
\* the integer directive characters of unpack with a count
IntCountChars == {"C", "c", "S", "s", "L", "l", "Q", "q", "N", "n", "V", "v", "I", "i"}

\* the integer the bytes of element i stand for: the bytes in the order the
\* directive resolves to (N n big-endian, V v little-endian, the others the
\* host's), extended by zeros, or by the sign when the directive is signed
MathValue(i) ==
  LET w == NumWidth(NumChar)
      bytes == Slice(src, NumStart + (i - 1) * w, w)
      big == NumChar \in {"N", "n"} \/ (NumChar \notin {"V", "v"} /\ ~littleendian)
      low == IF big THEN Reverse(bytes) ELSE bytes
  IN IF NumChar \in {"c", "s", "l", "q", "i"} THEN SignExt(low) ELSE ZeroExt(low)

\* v is a native integer of the build: -2^63 .. 2^63 - 1 with MRB_INT64,
\* -2^31 .. 2^31 - 1 without
Native(v) ==
  LET top == IF int64 THEN 8 ELSE 4
  IN \A i \in (top + 1)..9 : v[i] = (IF v[top] >= 128 THEN 255 ELSE 0)

\* the elements the directive is to decode
Decoded == IF NumCount = -1 THEN NumHeld ELSE Min(NumCount, NumHeld)

\* C24: unpack of an integer directive raises RangeError and returns nothing
\* when an element's value is no native integer of the build (an unsigned one
\* too large, a signed one outside the range), and every value it appends is
\* the integer the element's bytes stand for in the resolved byte order,
\* never a wrapped or truncated one.
C24_Exact ==
  (NumUnpack /\ NumChar \in IntCountChars) =>
    /\ \A j \in 1..Min(Len(out), Decoded) :
         out[j] = FixnumValue(MathValue(j)) /\ Native(MathValue(j))
    /\ pc = "raised" =>
         /\ err = "RangeError" /\ ret = <<>>
         /\ \E i \in 1..Decoded : ~Native(MathValue(i))
    /\ pc = "done" => \A i \in 1..Decoded : Native(MathValue(i))

\* unpack of eight bytes 0xFF with "Q" has raised RangeError on a 64-bit build
C24_Witness ==
  /\ op = "unpack" /\ tmpl = <<"Q">> /\ int64 /\ src = Rep(8, 255)
  /\ pc = "raised" /\ err = "RangeError" /\ out = <<>>


---------------------------------------------------------------------------
\* the characters of a template
Range(tm) == {tm[i] : i \in 1..Len(tm)}

\* the directives that have a byte order
OrderChars ==
  {"S", "s", "L", "l", "Q", "q", "I", "i", "N", "n", "V", "v",
   "D", "d", "E", "e", "F", "f", "G", "g"}

\* the call is a round trip of one value with one directive that has a byte
\* order, with "<" or ">" or without
OrderCall ==
  /\ op \in {"roundtrip", "unpack_packed"} /\ Len(ary) = 1
  /\ Len(tmpl) \in {1, 2} /\ tmpl[1] \in OrderChars
  /\ Len(tmpl) = 2 => tmpl[2] \in {"<", ">"}

\* the order the directive resolves to is little-endian
ResolvedLittle ==
  \/ "<" \in Range(tmpl)
  \/ tmpl[1] \in {"V", "v", "E", "e"}
  \/ /\ ">" \notin Range(tmpl) /\ tmpl[1] \notin {"N", "n", "G", "g"}
     /\ littleendian

\* the same directive in little-endian form
LittleForm(ch) ==
  CASE ch \in {"S", "n", "v"} -> <<"v">>
    [] ch = "s" -> <<"s", "<">>
    [] ch \in {"L", "I", "N", "V"} -> <<"V">>
    [] ch \in {"l", "i"} -> <<"l", "<">>
    [] ch = "Q" -> <<"Q", "<">>
    [] ch = "q" -> <<"q", "<">>
    [] ch \in {"D", "d", "E", "G"} -> <<"E">>
    [] ch \in {"F", "f", "e", "g"} -> <<"e">>

\* the template the comments of read_tmpl give for N, V, n and v
LongForm(ch) ==
  CASE ch = "N" -> <<"L", ">">>
    [] ch = "V" -> <<"L", "<">>
    [] ch = "n" -> <<"S", ">">>
    [] ch = "v" -> <<"S", "<">>

InOrder(bytes) == IF ResolvedLittle THEN bytes ELSE Reverse(bytes)

\* C25: a directive with "<", or V, v, E, e, is encoded and decoded
\* little-endian, one with ">", or N, n, G, g, big-endian, and any other in
\* the host's order: its bytes are those of its little-endian form, reversed
\* when the order is big-endian (for an integer directive of width w the low
\* w bytes of the value), its unpack returns what the little-endian form
\* returns for the bytes in that order, and N, V, n, v pack as "L>", "L<",
\* "S>", "S<" do.
C25_ByteOrder ==
  OrderCall =>
    LET little == CallWith("pack", LittleForm(tmpl[1]))
    IN /\ (op = "roundtrip" /\ Finished) =>
            /\ pc = little.pc /\ err = little.err
            /\ pc = "done" =>
                 /\ ret[1].b = InOrder(little.ret[1].b)
                 /\ tmpl[1] \in IntCountChars =>
                      little.ret[1].b = SubSeq(ary[1].b, 1, NumWidth(tmpl[1]))
                 /\ tmpl[1] \in {"N", "V", "n", "v"} =>
                      ret = CallWith("pack", LongForm(tmpl[1])).ret
       /\ (op = "unpack_packed" /\ Finished) =>
            LET d == Outcome(Start(Scenario("unpack", LittleForm(tmpl[1]), <<>>,
                                            InOrder(src)),
                                   littleendian, int64))
            IN pc = d.pc /\ err = d.err /\ (pc = "done" => ret = d.ret)

\* the round trip of 0x3C17F2CDA8835E39 with "q>" on a little-endian host
\* has packed it most significant byte first and has returned it
C25_Witness ==
  /\ op = "unpack_packed" /\ pc = "done" /\ littleendian /\ tmpl = <<"q", ">">>
  /\ src = Reverse(Pattern(8, 1))
  /\ ret = <<FixnumValue(SignExt(Pattern(8, 1)))>>


---------------------------------------------------------------------------
\* the next step is a call of read_tmpl
ReadsTmpl == pc \in {"pack_tmpl", "unpack_tmpl"} /\ has_tmpl(tmpl, tidx)

\* how far a pack is from its end: the characters of the template left,
\* then the position (the value loop before the directive loop), then the
\* values left
PackRank ==
  CASE pc = "idle" -> 3
    [] pc = "pack_loop" -> 2
    [] pc = "pack_tmpl" -> 1
    [] OTHER -> 0

PackMeasure ==
  ((Len(tmpl) - tidx) * 4 + PackRank) * (Len(ary) + 1) + (Len(ary) - aidx)

\* C26: in any pack or unpack call the template offset never passes the
\* template's length and never ends a step lower than it started it; every
\* call of read_tmpl moves it on by at least one character; so pack reads at
\* most len(template) directives, and every step of pack brings it closer to
\* its end.
C26_TemplateCursor ==
  /\ [](0 <= tidx /\ tidx <= Len(tmpl))
  /\ [][/\ tidx' >= tidx
        /\ ReadsTmpl => tidx' >= tidx + 1
        /\ op = "pack" => (PackMeasure' < PackMeasure /\ PackMeasure' >= 0)]_vars

\* pack with "C@2" has read C, pushed "@" back, skipped it, and taken "2"
\* with it: the offset is at the end of the template
C26_Witness ==
  /\ op = "pack" /\ pc = "done" /\ tmpl = <<"C", "@", "2">> /\ tidx = 3


---------------------------------------------------------------------------
\* C27: unpack returns or raises after finitely many steps.  A round of the
\* count loop is a function of the count, the source cursor and what the
\* call never changes, so the loop can only end if every round that stays in
\* it lowers the count or moves the cursor: with the "*" count, the
\* directive stops once no further source bytes can be consumed.
C27_LoopProgress ==
  [][(pc = "unpack_loop" /\ pc' = "unpack_loop") =>
       (count' # count \/ srcidx' # srcidx)]_vars


---------------------------------------------------------------------------
\* pack is at a directive that takes values, and no value is left
Exhausted == op = "pack" /\ pc = "pack_loop" /\ ~(aidx < Len(ary))

\* the number of x characters in the template tm
RECURSIVE NulCount(_)
NulCount(tm) ==
  IF tm = <<>> THEN 0 ELSE (IF Head(tm) = "x" THEN 1 ELSE 0) + NulCount(Tail(tm))

\* C28: pack never fails for lack of values.  A directive reached when no
\* value is left, or left by a numeric directive that wanted more, raises
\* nothing and adds no byte; pack of the empty array returns the NUL bytes
\* of the x directives alone, and a numeric directive with a count beyond
\* the values present gives the bytes of the values present, without
\* padding.
C28_NoMissingValueError ==
  /\ []((op = "pack" /\ ary = <<>> /\ Finished) =>
          (pc = "done" /\ ret = <<StrValue(Rep(NulCount(tmpl), 0))>>))
  /\ []((NumPack /\ pc = "done" /\ tmpl[Len(tmpl)] # "C") =>
          Len(ret[1].b) = Taken * NumWidth(tmpl[1]) + NulCount(tmpl))
  /\ [][Exhausted =>
          /\ pc' = "pack_tmpl" /\ err' = ""
          /\ result' = result /\ ridx' = ridx /\ aidx' = aidx]_vars

\* pack of [65] with "C3x" has returned the byte of 65 and the NUL of x
C28_Witness ==
  /\ op = "pack" /\ pc = "done" /\ tmpl = <<"C", "3", "x">> /\ ary = <<Fix(65)>>
  /\ ret = <<StrValue(<<65, 0>>)>>


---------------------------------------------------------------------------
\* C29: _ensure runs the ensure callback exactly once on every path.  When
\* body raised, the callback was called with the jump target back at its
\* value on entry, the helper does not return, and unless the callback
\* itself raised, the exception that is pending when the helper is left is
\* the one body raised.
C29_EnsureOnce ==
  (frame.fn = "ensure" /\ ExcLeft) =>
    /\ Len(calls) = 1
    /\ calls[1].jmp = frame.entry_jmp
    /\ frame.body # "return" =>
         /\ frame.at # "returned"
         /\ frame.cb # "raise" => mrb.exc = frame.body


---------------------------------------------------------------------------
\* the classes a class is a kind of
Ancestors(c) ==
  CASE c = "Exception" -> {"Exception"}
    [] c \in {"StandardError", "ScriptError"} -> {c, "Exception"}
    [] OTHER -> {c, "StandardError", "Exception"}

\* body raised, and its exception is an instance of one of the classes given
Rescuable ==
  /\ frame.body # "return"
  /\ \E i \in 1..Len(frame.classes) : frame.classes[i] \in Ancestors(frame.body)

\* the helper is past its MRB_TRY and MRB_CATCH blocks
PastCatch == frame.at \in {"return", "rescue", "returned", "thrown", "crashed"}

\* C30: _protect and _rescue_exceptions put the jump target back to its
\* value on entry on the normal and on the raising path.  _protect always
\* returns; *state is TRUE exactly when body raised, and then the result is
\* the exception and no exception is pending.  _rescue_exceptions calls the
\* rescue callback only when body raised an instance of one of the classes,
\* once and with no exception pending; otherwise it makes no call and throws
\* with the exception body raised still pending.
C30_ProtectRescue ==
  /\ (frame.fn \in {"protect", "rescue_exceptions"} /\ PastCatch) =>
       mrb.jmp = frame.entry_jmp
  /\ (frame.fn = "protect" /\ PastCatch) =>
       /\ frame.at \in {"return", "returned"}
       /\ frame.state # "none" => (frame.state = "TRUE" <=> frame.body # "return")
       /\ frame.body # "return" => (frame.result = frame.body /\ mrb.exc = "NULL")
  /\ (frame.fn = "rescue_exceptions" /\ PastCatch) =>
       /\ Len(calls) <= 1
       /\ calls # <<>> => (Rescuable /\ calls[1].exc = "NULL" /\ calls[1].jmp = frame.entry_jmp)
       /\ (Rescuable /\ frame.at # "rescue") => Len(calls) = 1
       /\ (frame.body # "return" /\ ~Rescuable) =>
            (frame.at \in {"thrown", "crashed"} /\ mrb.exc = frame.body /\ calls = <<>>)
       /\ frame.at = "crashed" => frame.entry_jmp = "NULL"

\* _rescue_exceptions with the classes ScriptError and StandardError has
\* rescued an ArgumentError: the callback was called once and the helper
\* returned its value
C30_Witness ==
  /\ frame.fn = "rescue_exceptions" /\ frame.at = "returned"
  /\ frame.body = "ArgumentError" /\ frame.classes = <<"ScriptError", "StandardError">>
  /\ Len(calls) = 1 /\ frame.result = "rescue_value" /\ mrb.exc = "NULL"

============================================================================
